---- MODULE Spec2Model ----
(***************************************************************************)
(* The tabular aggregation and earnings pipeline of the dispatch report    *)
(* bot: value sanitizing (clean_amount), week segmentation                 *)
(* (detect_week_markers), cleaning and grouping (clean_dataframe,          *)
(* process_category, process_excel_file) and the earnings calculation      *)
(* (_calculate_earnings).                                                  *)
(*                                                                         *)
(* Representation.  A text is a sequence of one-character strings.  A cell *)
(* of a table is missing (NaN), a text or an integer number.  A float is   *)
(* a fixed-point integer counting tenths (Unit); an earnings value counts  *)
(* 1/(100*Unit*Unit), so that total * percentage / 100 is exact.           *)
(***************************************************************************)
EXTENDS Integers, Sequences, FiniteSets, TLC

VARIABLES df, category, config, dispatcher_percentages, call, ret, local,
          files, manager, user_data

vars == <<df, category, config, dispatcher_percentages, call, ret, local,
          files, manager, user_data>>

\* the bot's side of the state: the files on disk, the configuration
\* manager of the running process and the chat session
bot_vars == <<files, manager, user_data>>

(***************************************************************************)
(* Bounds of the model.                                                    *)
(***************************************************************************)
MaxLen == 3

(***************************************************************************)
(* Python text primitives, character by character.                         *)
(***************************************************************************)
Unit == 10

DigitChars == <<"0", "1", "2", "3", "4", "5", "6", "7", "8", "9">>

UpperChars ==
    <<"A", "B", "C", "D", "E", "F", "G", "H", "I", "J", "K", "L", "M",
      "N", "O", "P", "Q", "R", "S", "T", "U", "V", "W", "X", "Y", "Z">>

LowerChars ==
    <<"a", "b", "c", "d", "e", "f", "g", "h", "i", "j", "k", "l", "m",
      "n", "o", "p", "q", "r", "s", "t", "u", "v", "w", "x", "y", "z">>

\* Code point order of the characters the tables use (ASCII).
AsciiOrder ==
    <<" ", "$", "%", "+", ",", "-", ".">> \o DigitChars \o <<":">>
        \o UpperChars \o <<"_">> \o LowerChars

IsDigit(c) == \E i \in DOMAIN DigitChars : DigitChars[i] = c

DigitVal(c) == (CHOOSE i \in DOMAIN DigitChars : DigitChars[i] = c) - 1

IsSpace(c) == c \in {" ", "\t", "\n"}

Ord(c) == CHOOSE i \in DOMAIN AsciiOrder : AsciiOrder[i] = c

\* str.lower() on one character
LowerChar(c) ==
    IF \E i \in DOMAIN UpperChars : UpperChars[i] = c
    THEN LowerChars[CHOOSE i \in DOMAIN UpperChars : UpperChars[i] = c]
    ELSE c

\* str.lower()
lower(s) == [i \in DOMAIN s |-> LowerChar(s[i])]

\* str.strip()
RECURSIVE strip(_)
strip(s) ==
    IF s = <<>> THEN s
    ELSE IF IsSpace(Head(s)) THEN strip(Tail(s))
    ELSE IF IsSpace(s[Len(s)]) THEN strip(SubSeq(s, 1, Len(s) - 1))
    ELSE s

\* sub in s
contains(s, sub) ==
    \E p \in 1..(Len(s) - Len(sub) + 1) : SubSeq(s, p, p + Len(sub) - 1) = sub

\* s < t for Python strings: lexicographic by code point
RECURSIVE StrLess(_, _)
StrLess(s, t) ==
    IF t = <<>> THEN FALSE
    ELSE IF s = <<>> THEN TRUE
    ELSE IF Head(s) = Head(t) THEN StrLess(Tail(s), Tail(t))
    ELSE Ord(Head(s)) < Ord(Head(t))

\* the decimal digits of n >= 0
RECURSIVE Decimal(_)
Decimal(n) ==
    IF n < 10 THEN <<DigitChars[n + 1]>>
    ELSE Decimal(n \div 10) \o <<DigitChars[(n % 10) + 1]>>

(***************************************************************************)
(* Cells and optional floats.                                              *)
(***************************************************************************)
NaN == [t |-> "nan", s |-> <<>>, n |-> 0]

Text(s) == [t |-> "str", s |-> s, n |-> 0]

Number(n) == [t |-> "num", s |-> <<>>, n |-> n]

\* pd.isna / pd.notna on a scalar cell
isna(cell) == cell.t = "nan"

\* str(value) of a cell: the text itself, the decimal form of an integer,
\* "nan" for a missing value
str(cell) ==
    IF cell.t = "str" THEN cell.s
    ELSE IF cell.t = "num"
         THEN IF cell.n < 0 THEN <<"-">> \o Decimal(-cell.n) ELSE Decimal(cell.n)
    ELSE <<"n", "a", "n">>

\* The outcomes of a call returning Optional[float]: None, a float, or an
\* exception leaving the call.
None == [raised |-> FALSE, none |-> TRUE, v |-> 0]

Float(x) == [raised |-> FALSE, none |-> FALSE, v |-> x]

Raised == [raised |-> TRUE, none |-> TRUE, v |-> 0]

(***************************************************************************)
(* clean_amount                                                            *)
(***************************************************************************)
\* a variant of the substitution whose character class omits '-'
RECURSIVE re_sub_drops_sign(_)
re_sub_drops_sign(s) ==
    IF s = <<>> THEN <<>>
    ELSE IF IsDigit(Head(s)) \/ Head(s) = "."
         THEN <<Head(s)>> \o re_sub_drops_sign(Tail(s))
    ELSE re_sub_drops_sign(Tail(s))

\* re.sub(r'[^\d.-]', '', s)
RECURSIVE re_sub_non_numeric(_)
re_sub_non_numeric(s) ==
    IF s = <<>> THEN <<>>
    ELSE IF IsDigit(Head(s)) \/ Head(s) = "." \/ Head(s) = "-"
         THEN <<Head(s)>> \o re_sub_non_numeric(Tail(s))
    ELSE re_sub_non_numeric(Tail(s))

\* the value of a run of digits, read left to right
RECURSIVE DigitsValue(_)
DigitsValue(ds) ==
    IF ds = <<>> THEN 0
    ELSE 10 * DigitsValue(SubSeq(ds, 1, Len(ds) - 1)) + DigitVal(ds[Len(ds)])

\* float(s) for a text of digits, '.' and '-': an optional leading '-', then
\* digits with at most one '.', at least one digit; ValueError otherwise.
\* The value is kept to the first fractional digit.
float_of(s) ==
    LET neg  == s # <<>> /\ Head(s) = "-"
        body == IF neg THEN Tail(s) ELSE s
        dots == {i \in DOMAIN body : body[i] = "."}
        ok   == /\ \A i \in DOMAIN body : IsDigit(body[i]) \/ body[i] = "."
                /\ Cardinality(dots) <= 1
                /\ \E i \in DOMAIN body : IsDigit(body[i])
        dot  == IF dots = {} THEN Len(body) + 1 ELSE CHOOSE i \in dots : TRUE
        ip   == SubSeq(body, 1, dot - 1)
        fp   == SubSeq(body, dot + 1, Len(body))
        mag  == DigitsValue(ip) * Unit + (IF fp = <<>> THEN 0 ELSE DigitVal(fp[1]))
    IN  IF ~ok THEN Raised
        ELSE Float(IF neg THEN -mag ELSE mag)

clean_amount(amount_str) ==
    IF isna(amount_str) THEN None
    ELSE LET cleaned == re_sub_non_numeric(str(amount_str))
             parsed  == IF cleaned # <<>> THEN float_of(cleaned) ELSE None
         IN  IF parsed.raised THEN None ELSE parsed

(***************************************************************************)
(* Inputs of the sanitizer.                                                *)
(***************************************************************************)
BoundedSeq(S, n) == UNION {[1..k -> S] : k \in 0..n}

AmountAlphabet == {"5", "0", ".", "-", "$", "a"}

AmountNumbers == {-5, 0, 7, 300, 1500}

AmountExamples ==
    { <<"$", "1", ",", "5", "0", "0">>,
      <<"1", "7", "5", "2", "$", "+", "L", "U", "M", "P", "E">>,
      <<"a", "b", "c">>,
      <<"1", "5", "0", "0", ".", "0">>,
      <<"1", "2", "-", "3">>,
      <<"1", ".", "5", ".", "2">> }

AmountInputs ==
    {NaN} \cup {Number(n) : n \in AmountNumbers}
          \cup {Text(s) : s \in BoundedSeq(AmountAlphabet, MaxLen) \cup AmountExamples}

NoTable == [columns |-> <<>>, rows |-> <<>>]

NoCategory ==
    [name |-> <<>>, entity_column |-> <<>>, amount_columns |-> <<>>,
     grouping_columns |-> <<>>, calculation_method |-> "percentage"]

\* config: Optional[Dict] -- None, or a dict kept as its items in insertion order
ConfigNone == [is_none |-> TRUE, items |-> <<>>]

ConfigDict(items) == [is_none |-> FALSE, items |-> items]

\* a path of the working directory where no file exists
NoFile == [exists |-> FALSE, kind |-> "missing", data |-> <<>>]

\* context.user_data after clear(): a dict without keys
EmptyUserData ==
    [keys |-> {}, setconfig_mode |-> "", setconfig_category |-> NoCategory,
     setconfig_entities |-> <<>>, pending_file |-> <<>>, file_name |-> <<>>,
     detected_categories |-> <<>>, df |-> NoTable, selected_categories |-> <<>>,
     current_category_index |-> 0, awaiting_config_category |-> NoCategory,
     config_entities |-> <<>>, ai_suggestion |-> FALSE]

\* no bot process: an empty working directory, no manager, no session
NoBot ==
    /\ files = [analysis_config |-> NoFile, dispatcher_config |-> NoFile, temp |-> {}]
    /\ manager = [state |-> "down", is_dict |-> TRUE, config |-> <<>>]
    /\ user_data = EmptyUserData

InitClean ==
    /\ df = NoTable
    /\ category = NoCategory
    /\ config = ConfigNone
    /\ dispatcher_percentages = <<>>
    /\ \E x \in AmountInputs : call = [op |-> "start", amount_str |-> x]
    /\ ret = None
    /\ local = <<>>
    /\ NoBot

\* one call of clean_amount on the drawn input
CleanAmount ==
    /\ call.op \in {"start", "clean_amount"}
    /\ call' = [call EXCEPT !.op = "clean_amount"]
    /\ ret' = clean_amount(call.amount_str)
    /\ UNCHANGED <<df, category, config, dispatcher_percentages, local>>
    /\ UNCHANGED bot_vars

NextClean == CleanAmount

SpecClean == InitClean /\ [][NextClean]_vars

(***************************************************************************)
(* C6  clean_amount never raises; a missing value gives None; otherwise    *)
(* the result is the number read from the input's text with every          *)
(* character other than a digit, '.' or '-' removed, and None when that    *)
(* text is empty or not a well-formed number (several signs or points, a   *)
(* sign not in front, no digit); the sign of a negative input is kept.     *)
(***************************************************************************)
IsNumericChar(c) == IsDigit(c) \/ c \in {".", "-"}

Count(s, c) == Cardinality({i \in DOMAIN s : s[i] = c})

WellFormed(f) ==
    /\ \E i \in DOMAIN f : IsDigit(f[i])
    /\ Count(f, "-") <= 1
    /\ Count(f, ".") <= 1
    /\ \A i \in DOMAIN f : f[i] = "-" => i = 1

RECURSIVE Pow10(_)
Pow10(k) == IF k = 0 THEN 1 ELSE 10 * Pow10(k - 1)

RECURSIVE SumOver(_, _)
SumOver(S, f) ==
    IF S = {} THEN 0
    ELSE LET i == CHOOSE j \in S : TRUE IN f[i] + SumOver(S \ {i}, f)

\* the tenths denoted by a well-formed numeric text, digit by position
Magnitude(f) ==
    LET p == IF Count(f, ".") = 0 THEN Len(f) + 1
             ELSE CHOOSE i \in DOMAIN f : f[i] = "."
        w == [i \in DOMAIN f |->
                 IF ~IsDigit(f[i]) THEN 0
                 ELSE IF i < p THEN DigitVal(f[i]) * Pow10(p - 1 - i) * Unit
                 ELSE IF i = p + 1 THEN DigitVal(f[i])
                 ELSE 0]
    IN  SumOver(DOMAIN f, w)

CleanAmountContract(x, r) ==
    /\ ~r.raised
    /\ isna(x) => r = None
    /\ ~isna(x) =>
          LET f == SelectSeq(str(x), IsNumericChar)
          IN  /\ r.none <=> ~WellFormed(f)
              /\ WellFormed(f) =>
                    /\ r.v = (IF f[1] = "-" THEN -Magnitude(f) ELSE Magnitude(f))
                    /\ (x.t = "num" => r.v = x.n * Unit)

CleanAmountExamples ==
    /\ clean_amount(Text(<<"$", "1", ",", "5", "0", "0">>)) = Float(1500 * Unit)
    /\ clean_amount(Text(<<"1", "7", "5", "2", "$", "+", "L", "U", "M", "P", "E">>))
          = Float(1752 * Unit)
    /\ clean_amount(Text(<<>>)) = None
    /\ clean_amount(Text(<<"a", "b", "c">>)) = None
    /\ clean_amount(Number(-5)) = Float(-5 * Unit)

C6_CleanAmount ==
    call.op = "clean_amount" =>
        CleanAmountContract(call.amount_str, ret) /\ CleanAmountExamples

\* a negative input has been cleaned to a negative number, and an ill-formed
\* one (a sign not in front) to None
C6_Witness ==
    /\ call.op = "clean_amount"
    /\ call.amount_str = Text(<<"$", "-", "5">>)
    /\ ret = Float(-5 * Unit)
    /\ clean_amount(Text(<<"5", "-">>)) = None

(***************************************************************************)
(* Tables.  A table has column names and rows; a row holds one cell per    *)
(* column and its position is its index label (a RangeIndex).              *)
(***************************************************************************)
MaxMarkerRows == 3

Col_Broker == <<"B", "r", "o", "k", "e", "r">>

Col_Week == <<"W", "e", "e", "k">>

BeforeWeek1 ==
    <<"B", "e", "f", "o", "r", "e", " ", "W", "e", "e", "k", " ", "1">>

\* position of a column name in a list of names, 0 when it is absent
ColIndex(columns, name) ==
    IF \E i \in DOMAIN columns : columns[i] = name
    THEN CHOOSE i \in DOMAIN columns :
            columns[i] = name /\ \A j \in 1..(i - 1) : columns[j] # name
    ELSE 0

\* row[column]
CellOf(columns, row, name) == row[ColIndex(columns, name)]

(***************************************************************************)
(* detect_week_markers                                                     *)
(***************************************************************************)
\* index of the first character at or after q that is not whitespace
RECURSIVE SkipSpaces(_, _)
SkipSpaces(s, q) ==
    IF q <= Len(s) /\ IsSpace(s[q]) THEN SkipSpaces(s, q + 1) ELSE q

\* the longest run of digits of s starting at q
RECURSIVE DigitRun(_, _)
DigitRun(s, q) ==
    IF q <= Len(s) /\ IsDigit(s[q]) THEN <<s[q]>> \o DigitRun(s, q + 1) ELSE <<>>

\* re.search(r'week\s*(\d+)', s), scanning start positions from p on:
\* found and group(1) of the leftmost match
RECURSIVE re_search_week_from(_, _)
re_search_week_from(s, p) ==
    IF p + 3 > Len(s) THEN [found |-> FALSE, group1 |-> <<>>]
    ELSE LET q == SkipSpaces(s, p + 4)
         IN  IF SubSeq(s, p, p + 3) = <<"w", "e", "e", "k">> /\ DigitRun(s, q) # <<>>
             THEN [found |-> TRUE, group1 |-> DigitRun(s, q)]
             ELSE re_search_week_from(s, p + 1)

re_search_week(s) == re_search_week_from(s, 1)

\* f"Week {digits}"
WeekLabel(digits) == <<"W", "e", "e", "k", " ">> \o digits

\* a variant of the scan that labels a row before looking at its marker
RECURSIVE week_scan_label_first(_, _, _)
week_scan_label_first(rows, col, current_week) ==
    IF rows = <<>> THEN <<>>
    ELSE LET cell       == Head(rows)[col]
             broker_val == IF ~isna(cell) THEN strip(str(cell)) ELSE <<>>
             week_match == re_search_week(lower(broker_val))
             next_week  == IF week_match.found THEN WeekLabel(week_match.group1)
                           ELSE current_week
         IN  <<current_week>> \o week_scan_label_first(Tail(rows), col, next_week)

\* the loop of detect_week_markers over the rows in order: week_list
RECURSIVE week_scan(_, _, _)
week_scan(rows, col, current_week) ==
    IF rows = <<>> THEN <<>>
    ELSE LET cell       == Head(rows)[col]
             broker_val == IF ~isna(cell) THEN strip(str(cell)) ELSE <<>>
             week_match == re_search_week(lower(broker_val))
             next_week  == IF week_match.found THEN WeekLabel(week_match.group1)
                           ELSE current_week
         IN  <<next_week>> \o week_scan(Tail(rows), col, next_week)

detect_week_markers(table, broker_column) ==
    week_scan(table.rows, ColIndex(table.columns, broker_column), BeforeWeek1)

(***************************************************************************)
(* Inputs of the segmenter: one-column tables of marker cells.             *)
(***************************************************************************)
MarkerCells ==
    { NaN,
      Number(5),
      Text(<<"A", "c", "m", "e">>),
      Text(<<"W", "e", "e", "k", " ", "4", " ", "s", "t", "a", "r", "t", "s">>),
      Text(<<" ", "W", "E", "E", "K", " ", " ", "0", "4">>),
      Text(<<"w", "e", "e", "k", "1", "2">>),
      Text(<<"w", "e", "e", "k", "l", "y", " ", "3">>),
      Text(<<"W", "e", "e", "k">>),
      Text(<<"w", "e", "e", "k", " ", "w", "e", "e", "k", "7", " ", "w", "e", "e", "k", "9">>) }

MarkerTables ==
    { [columns |-> <<Col_Broker>>, rows |-> [i \in DOMAIN cells |-> <<cells[i]>>]] :
        cells \in BoundedSeq(MarkerCells, MaxMarkerRows) }

InitWeeks ==
    /\ df \in MarkerTables
    /\ category = NoCategory
    /\ config = ConfigNone
    /\ dispatcher_percentages = <<>>
    /\ call = [op |-> "start"]
    /\ ret = <<>>
    /\ local = <<>>
    /\ NoBot

\* one call of detect_week_markers on the drawn table
DetectWeekMarkers ==
    /\ call' = [op |-> "detect_week_markers", broker_column |-> Col_Broker]
    /\ ret' = detect_week_markers(df, Col_Broker)
    /\ UNCHANGED <<df, category, config, dispatcher_percentages, local>>
    /\ UNCHANGED bot_vars

NextWeeks == DetectWeekMarkers

SpecWeeks == InitWeeks /\ [][NextWeeks]_vars

(***************************************************************************)
(* C2  detect_week_markers returns one label per row in row order; the     *)
(* label of row i is "Week <digits>" for the digits, verbatim, of the last *)
(* row j <= i whose marker cell matches "week", optional whitespace, one   *)
(* or more digits (case-insensitively), and "Before Week 1" when there is  *)
(* no such row.                                                            *)
(***************************************************************************)
\* the text the marker pattern is matched against
MarkerText(cell) == IF isna(cell) THEN <<>> ELSE lower(strip(str(cell)))

\* the pattern matches with "week" at p and its digits starting at q
MarkerAt(s, p, q) ==
    /\ p >= 1 /\ p + 4 <= q /\ q <= Len(s)
    /\ SubSeq(s, p, p + 3) = <<"w", "e", "e", "k">>
    /\ \A k \in (p + 4)..(q - 1) : IsSpace(s[k])
    /\ IsDigit(s[q])

IsMarker(cell) ==
    LET s == MarkerText(cell)
    IN  \E p \in DOMAIN s : \E q \in DOMAIN s : MarkerAt(s, p, q)

\* the digits the leftmost match captures: the whole run of digits at q
MarkerDigits(cell) ==
    LET s  == MarkerText(cell)
        p0 == CHOOSE p \in DOMAIN s :
                 /\ \E q \in DOMAIN s : MarkerAt(s, p, q)
                 /\ \A p1 \in 1..(p - 1) : ~\E q \in DOMAIN s : MarkerAt(s, p1, q)
        q0 == CHOOSE q \in DOMAIN s : MarkerAt(s, p0, q)
        e0 == CHOOSE e \in q0..Len(s) :
                 /\ \A k \in q0..e : IsDigit(s[k])
                 /\ (e < Len(s) => ~IsDigit(s[e + 1]))
    IN  SubSeq(s, q0, e0)

\* the label the contract gives row i of a marker column
ExpectedLabel(cells, i) ==
    LET M == {j \in 1..i : IsMarker(cells[j])}
    IN  IF M = {} THEN BeforeWeek1
        ELSE LET last == CHOOSE j \in M : \A k \in M : k <= j
             IN  <<"W", "e", "e", "k", " ">> \o MarkerDigits(cells[last])

C2_WeekLabels ==
    call.op = "detect_week_markers" =>
        /\ Len(ret) = Len(df.rows)
        /\ \A i \in DOMAIN df.rows :
              ret[i] = ExpectedLabel([k \in DOMAIN df.rows |-> df.rows[k][1]], i)

\* a table whose second row announces week 04 and whose third row has no
\* marker: both carry "Week 04", the first row "Before Week 1"
C2_Witness ==
    /\ call.op = "detect_week_markers"
    /\ Len(df.rows) = 3
    /\ df.rows[1][1] = Text(<<"A", "c", "m", "e">>)
    /\ df.rows[2][1] = Text(<<" ", "W", "E", "E", "K", " ", " ", "0", "4">>)
    /\ df.rows[3][1] = NaN
    /\ ret = <<BeforeWeek1, <<"W", "e", "e", "k", " ", "0", "4">>,
               <<"W", "e", "e", "k", " ", "0", "4">>>>

(***************************************************************************)
(* Configuration and _calculate_earnings.                                  *)
(*                                                                         *)
(* A configuration is None or a dict, kept as its items in insertion       *)
(* order; an item's data is a dict with the keys named in "fields".  The   *)
(* legacy dispatcher_percentages is a dict of name -> number.              *)
(***************************************************************************)
MaxConfigLen == 2

EarnUnit == 100 * Unit * Unit

\* a float (tenths) in the unit of earnings
AsEarnings(x) == x * 100 * Unit

\* `if config:` -- neither None nor an empty dict
Truthy(cfg) == ~cfg.is_none /\ cfg.items # <<>>

\* config_data.get('value', 0)
get_value(data) == IF "value" \in data.fields THEN data.value ELSE 0

\* a variant of the lookup without the break: the last matching key wins
RECURSIVE find_config_last(_, _)
find_config_last(entity, items) ==
    IF items = <<>> THEN [found |-> FALSE, name |-> entity, data |-> [fields |-> {}]]
    ELSE LET it == items[Len(items)]
         IN  IF lower(entity) = lower(it.key)
             THEN [found |-> TRUE, name |-> it.key, data |-> it.data]
             ELSE find_config_last(entity, SubSeq(items, 1, Len(items) - 1))

\* the loop over config.items() with its break: entity_config and
\* matched_name of the first key equal to the entity ignoring case
RECURSIVE find_config(_, _)
find_config(entity, items) ==
    IF items = <<>> THEN [found |-> FALSE, name |-> entity, data |-> [fields |-> {}]]
    ELSE IF lower(entity) = lower(Head(items).key)
         THEN [found |-> TRUE, name |-> Head(items).key, data |-> Head(items).data]
    ELSE find_config(entity, Tail(items))

\* a variant that takes the percentage as a fraction
earnings_percentage_fraction(total_amount, percentage) ==
    total_amount * percentage * 100

\* (total_amount * percentage) / 100
earnings_percentage(total_amount, percentage) == total_amount * percentage

\* a variant that pays the flat rate per unit of amount
earnings_flat_rate_scaled(total_amount, flat_rate) == total_amount * flat_rate

\* 'earnings': flat_rate
earnings_flat_rate(total_amount, flat_rate) == AsEarnings(flat_rate)

\* the dict _calculate_earnings returns: the keys it holds and their values
EarningsData(keys, name, total, pct, flat, earn) ==
    [raised |-> FALSE, fields |-> keys, entity_name |-> name, total_amount |-> total,
     percentage |-> pct, flat_rate |-> flat, earnings |-> earn]

_calculate_earnings(entity, total_amount, cat, cfg) ==
    LET hit == IF Truthy(cfg) THEN find_config(entity, cfg.items)
               ELSE [found |-> FALSE, name |-> entity, data |-> [fields |-> {}]]
        \* entity_config.get('value', 0) if entity_config else 0
        value == IF hit.found /\ hit.data.fields # {} THEN get_value(hit.data) ELSE 0
    IN  IF cat.calculation_method = "sum_only"
        THEN EarningsData({"entity_name", "total_amount", "percentage", "earnings"},
                          hit.name, total_amount, 0, 0, AsEarnings(total_amount))
        ELSE IF cat.calculation_method = "percentage"
        THEN EarningsData({"entity_name", "total_amount", "percentage", "earnings"},
                          hit.name, total_amount, value, 0,
                          earnings_percentage(total_amount, value))
        ELSE IF cat.calculation_method = "flat_rate"
        THEN EarningsData({"entity_name", "total_amount", "flat_rate", "earnings"},
                          hit.name, total_amount, 0, value,
                          earnings_flat_rate(total_amount, value))
        ELSE EarningsData({"entity_name", "total_amount", "earnings"},
                          hit.name, total_amount, 0, 0, 0)

\* process_excel_file's inline lookup and percentage calculation for one
\* aggregated row: matched_name and the entry stored under it
RECURSIVE legacy_find(_, _)
legacy_find(dispatcher, percentages) ==
    IF percentages = <<>> THEN [found |-> FALSE, name |-> dispatcher, value |-> 0]
    ELSE IF lower(dispatcher) = lower(Head(percentages).key)
         THEN [found |-> TRUE, name |-> Head(percentages).key,
               value |-> Head(percentages).value]
    ELSE legacy_find(dispatcher, Tail(percentages))

legacy_earnings(dispatcher, total_amount, percentages) ==
    LET hit == legacy_find(dispatcher, percentages)
    IN  EarningsData({"total_amount", "percentage", "earnings"}, hit.name,
                     total_amount, hit.value, 0,
                     earnings_percentage(total_amount, hit.value))

(***************************************************************************)
(* Inputs of the earnings calculation.                                     *)
(***************************************************************************)
Name_Ali == <<"A", "l", "i">>

Name_ALI == <<"A", "L", "I">>

Name_ali == <<"a", "l", "i">>

Name_Sara == <<"S", "a", "r", "a">>

Name_Bob == <<"B", "o", "b">>

\* 12.5 %, 10 %, 100 %, a flat 300, and an entry without a value
ConfigData ==
    { [fields |-> {"type", "value"}, type |-> "percentage", value |-> 125],
      [fields |-> {"type", "value"}, type |-> "percentage", value |-> 10 * Unit],
      [fields |-> {"type", "value"}, type |-> "flat_rate", value |-> 300 * Unit],
      [fields |-> {"type"}, type |-> "percentage", value |-> 0] }

ConfigKeys == {Name_Ali, Name_ALI, Name_Sara}

ConfigItems == {[key |-> k, data |-> d] : k \in ConfigKeys, d \in ConfigData}

\* dicts: no key twice
DistinctKeys(items) ==
    \A i \in DOMAIN items : \A j \in DOMAIN items : i # j => items[i].key # items[j].key

EarnConfigs ==
    {ConfigNone} \cup
    {ConfigDict(items) : items \in {s \in BoundedSeq(ConfigItems, MaxConfigLen) : DistinctKeys(s)}}

\* the legacy name -> percentage mapping with the same keys and values
LegacyOf(cfg) == [i \in DOMAIN cfg.items |->
                     [key |-> cfg.items[i].key, value |-> get_value(cfg.items[i].data)]]

EarnEntities == {Name_Ali, Name_ali, Name_ALI, Name_Sara, Name_Bob}

EarnTotals == {0, 1, 1000 * Unit, 5005}

Methods == {"percentage", "flat_rate", "sum_only", "custom"}

InitEarn ==
    /\ df = NoTable
    /\ \E meth \in Methods : category = [NoCategory EXCEPT !.calculation_method = meth]
    /\ config \in EarnConfigs
    /\ dispatcher_percentages = LegacyOf(config)
    /\ \E e \in EarnEntities : \E t \in EarnTotals :
          call = [op |-> "start", entity |-> e, total_amount |-> t]
    /\ ret = <<>>
    /\ local = <<>>
    /\ NoBot

\* one call of _calculate_earnings on the drawn arguments
CalculateEarnings ==
    /\ call' = [call EXCEPT !.op = "_calculate_earnings"]
    /\ ret' = _calculate_earnings(call.entity, call.total_amount, category, config)
    /\ UNCHANGED <<df, category, config, dispatcher_percentages, local>>
    /\ UNCHANGED bot_vars

\* the lookup and calculation of process_excel_file for one aggregated row
LegacyEarnings ==
    /\ call' = [call EXCEPT !.op = "legacy_earnings"]
    /\ ret' = legacy_earnings(call.entity, call.total_amount, dispatcher_percentages)
    /\ UNCHANGED <<df, category, config, dispatcher_percentages, local>>
    /\ UNCHANGED bot_vars

NextEarn == CalculateEarnings \/ LegacyEarnings

SpecEarn == InitEarn /\ [][NextEarn]_vars

\* the positions of the configuration keys equal to the entity ignoring case
Matches(entity, items) == {i \in DOMAIN items : lower(items[i].key) = lower(entity)}

FirstMatch(entity, items) ==
    CHOOSE i \in Matches(entity, items) : \A j \in Matches(entity, items) : i <= j

(***************************************************************************)
(* C7  Under the PERCENTAGE method earnings = total_amount * rate / 100,   *)
(* where rate is the value of the configuration entry matched ignoring     *)
(* case, and rate = 0 (so earnings = 0) when the configuration is absent   *)
(* or has no matching entry; a total of 1000 at 12.5 earns 125.            *)
(***************************************************************************)
PercentageContract(entity, total, items, r) ==
    LET M    == Matches(entity, items)
        rate == IF M = {} THEN 0 ELSE get_value(items[FirstMatch(entity, items)].data)
    IN  /\ r.total_amount = total
        /\ r.percentage = rate
        \* earnings / EarnUnit = (total / Unit) * (rate / Unit) / 100
        /\ r.earnings = total * rate * (EarnUnit \div (Unit * Unit * 100))
        /\ (M = {} => r.earnings = 0)

C7_Percentage ==
    /\ (call.op = "_calculate_earnings" /\ category.calculation_method = "percentage")
          => PercentageContract(call.entity, call.total_amount, config.items, ret)
    /\ call.op = "legacy_earnings"
          => PercentageContract(call.entity, call.total_amount,
                                config.items, ret)

\* total 1000 with value 12.5, matched through a key of another case, gives 125
C7_Witness ==
    /\ call.op = "_calculate_earnings"
    /\ category.calculation_method = "percentage"
    /\ call.entity = Name_ali
    /\ call.total_amount = 1000 * Unit
    /\ Truthy(config) /\ config.items[1].key = Name_Ali
    /\ config.items[1].data.value = 125
    /\ ret.earnings = 125 * EarnUnit

(***************************************************************************)
(* C8  Under the FLAT_RATE method earnings is the matched entry's value    *)
(* (0 without a matching entry) whatever total_amount is: two calls that   *)
(* differ only in total_amount return the same earnings.                   *)
(***************************************************************************)
C8_FlatRate ==
    (call.op = "_calculate_earnings" /\ category.calculation_method = "flat_rate") =>
        LET M    == Matches(call.entity, config.items)
            rate == IF M = {} THEN 0
                    ELSE get_value(config.items[FirstMatch(call.entity, config.items)].data)
        IN  /\ ret.earnings = AsEarnings(rate)
            /\ ret.flat_rate = rate
            /\ \A t \in EarnTotals :
                  _calculate_earnings(call.entity, t, category, config).earnings
                      = ret.earnings

\* a flat rate of 300 has been paid on a total of 1000
C8_Witness ==
    /\ call.op = "_calculate_earnings"
    /\ category.calculation_method = "flat_rate"
    /\ call.total_amount = 1000 * Unit
    /\ Matches(call.entity, config.items) # {}
    /\ ret.earnings = 300 * EarnUnit

(***************************************************************************)
(* C9  The entity is looked up among the configuration keys ignoring case  *)
(* and the first matching key in iteration order wins; the result carries  *)
(* the configuration key's spelling when a key matches and the data's      *)
(* spelling otherwise; two keys that differ only in case never make the    *)
(* calculation fail.                                                       *)
(***************************************************************************)
LookupContract(entity, items, r) ==
    LET M == Matches(entity, items)
    IN  /\ ~r.raised
        /\ (M = {} => r.entity_name = entity)
        /\ (M # {} => r.entity_name = items[FirstMatch(entity, items)].key)

C9_Lookup ==
    /\ call.op \in {"_calculate_earnings", "legacy_earnings"}
          => LookupContract(call.entity, config.items, ret)
    /\ (call.op = "_calculate_earnings" /\ Matches(call.entity, config.items) # {}
          /\ category.calculation_method \in {"percentage", "flat_rate"})
          => ret.percentage + ret.flat_rate
                = get_value(config.items[FirstMatch(call.entity, config.items)].data)

\* "ali" was looked up in a configuration holding "ALI" and then "Ali":
\* the first key's spelling and rate are used
C9_Witness ==
    /\ call.op = "_calculate_earnings"
    /\ category.calculation_method = "percentage"
    /\ call.entity = Name_ali
    /\ Len(config.items) = 2
    /\ config.items[1].key = Name_ALI /\ config.items[1].data.value = 125
    /\ config.items[2].key = Name_Ali /\ config.items[2].data.value = 10 * Unit
    /\ ret.entity_name = Name_ALI
    /\ ret.percentage = 125

(***************************************************************************)
(* clean_dataframe.  The cleaned frame is the sequence of the rows kept,   *)
(* in table order: each with its index label, its normalised entity name,  *)
(* its cleaned amounts (one per amount column) and, once process_category  *)
(* has added it, its Week label.                                           *)
(***************************************************************************)
\* a sequence given by a rule, laid out as the tuple of its elements
list(f) == f \o <<>>

\* df.columns.str.strip()
strip_columns(table) ==
    [table EXCEPT !.columns = list([i \in DOMAIN table.columns |->
                                       strip(table.columns[i])])]

\* the positions of the named columns (0 for a column the frame lacks)
column_indexes(columns, names) ==
    list([k \in DOMAIN names |-> ColIndex(columns, names[k])])

\* dropna(subset=amount_columns, how='all') on the raw cells
has_amount(row, acols) == \E k \in DOMAIN acols : ~isna(row[acols[k]])

\* df_clean[col].apply(clean_amount), for every amount column
cleaned_amounts(row, acols) ==
    list([k \in DOMAIN acols |-> clean_amount(row[acols[k]])])

\* dropna(subset=amount_columns, how='all') on the cleaned amounts
has_number(amounts) == \E k \in DOMAIN amounts : ~amounts[k].none

\* df_clean[df_clean[col] > 0] for every amount column in turn: a row stays
\* only if each of its amounts is a number above zero
keep_positive(amounts) ==
    \A k \in DOMAIN amounts : ~amounts[k].none /\ amounts[k].v > 0

\* astype(str).str.strip()
entity_name(row, ecol) == strip(str(row[ecol]))

\* != 'nan' and != ''
keep_entity(name) == name # <<"n", "a", "n">> /\ name # <<>>

keep_cleaned(amounts) == has_number(amounts) /\ keep_positive(amounts)

keep_row(row, ecol, acols) ==
    /\ has_amount(row, acols)
    /\ keep_cleaned(cleaned_amounts(row, acols))
    /\ keep_entity(entity_name(row, ecol))

\* apply() gives a float64 column (None becoming NaN) when some value is a
\* number, and an object column of None when none is
object_column(rows, acols, k) ==
    \A i \in DOMAIN rows :
        has_amount(rows[i], acols) => clean_amount(rows[i][acols[k]]).none

\* the row is still in the frame when amount column k is compared with 0
reaches_filter(row, acols, k) ==
    /\ has_amount(row, acols)
    /\ has_number(cleaned_amounts(row, acols))
    /\ \A j \in 1..(k - 1) :
          ~clean_amount(row[acols[j]]).none /\ clean_amount(row[acols[j]]).v > 0

\* None > 0 on a non-empty object column: TypeError
compare_raises(rows, acols) ==
    \E k \in DOMAIN acols :
        /\ object_column(rows, acols, k)
        /\ \E i \in DOMAIN rows : reaches_filter(rows[i], acols, k)

amount_values(amounts) == list([k \in DOMAIN amounts |-> amounts[k].v])

clean_row(i, row, ecol, acols) ==
    [idx |-> i, entity |-> entity_name(row, ecol),
     amounts |-> amount_values(cleaned_amounts(row, acols)), Week |-> <<>>]

RECURSIVE clean_rows(_, _, _, _)
clean_rows(rows, i, ecol, acols) ==
    IF i > Len(rows) THEN <<>>
    ELSE (IF keep_row(rows[i], ecol, acols)
          THEN <<clean_row(i, rows[i], ecol, acols)>> ELSE <<>>)
         \o clean_rows(rows, i + 1, ecol, acols)

\* df[cols_to_keep] raises KeyError for a column the frame lacks
clean_frame(rows, ecol, acols) ==
    IF ecol = 0 \/ \E k \in DOMAIN acols : acols[k] = 0
    THEN [raised |-> TRUE, rows |-> <<>>]
    ELSE IF compare_raises(rows, acols)
    THEN [raised |-> TRUE, rows |-> <<>>]
    ELSE [raised |-> FALSE, rows |-> clean_rows(rows, 1, ecol, acols)]

clean_dataframe(table, entity_column, amount_columns) ==
    clean_frame(table.rows, ColIndex(table.columns, entity_column),
                column_indexes(table.columns, amount_columns))

(***************************************************************************)
(* Dicts (insertion ordered) and groupby.                                  *)
(***************************************************************************)
DictHas(d, k) == \E i \in DOMAIN d : d[i].key = k

DictGet(d, k) == d[CHOOSE i \in DOMAIN d : d[i].key = k].value

\* d[k] = v
DictPut(d, k, v) ==
    IF DictHas(d, k)
    THEN list([i \in DOMAIN d |->
                 IF d[i].key = k THEN [key |-> k, value |-> v] ELSE d[i]])
    ELSE Append(d, [key |-> k, value |-> v])

\* the least text of a non-empty set
MinText(S) == CHOOSE x \in S : \A y \in S \ {x} : StrLess(x, y)

\* the texts of a set in increasing order (groupby sorts its keys)
RECURSIVE SortTexts(_)
SortTexts(S) ==
    IF S = {} THEN <<>> ELSE <<MinText(S)>> \o SortTexts(S \ {MinText(S)})

\* sum of the first amount column over a sequence of cleaned rows
RECURSIVE SumAmount(_)
SumAmount(rows) ==
    IF rows = <<>> THEN 0 ELSE Head(rows).amounts[1] + SumAmount(Tail(rows))

\* df.groupby(entity_col)[amount_col].sum(): the entities in sorted order
\* and the total of each
GroupTotal(rows, e) ==
    SumAmount(SelectSeq(rows, LAMBDA r : r.entity = e))

GroupKeys(rows) == SortTexts({rows[i].entity : i \in DOMAIN rows})

RowsOfWeek(rows, w) == SelectSeq(rows, LAMBDA r : r.Week = w)

WeekKeys(rows) == SortTexts({rows[i].Week : i \in DOMAIN rows})

(***************************************************************************)
(* _process_with_grouping and _process_without_grouping                    *)
(***************************************************************************)
\* the entry synthesized for a configured entity without a result
ZeroEntry(data) ==
    EarningsData({"total_amount", "percentage", "earnings"}, <<>>, 0,
                 get_value(data), 0, 0)

\* results[earnings_data['entity_name']] = earnings_data
put_entry(acc, earnings_data) ==
    DictPut(acc, earnings_data.entity_name, earnings_data)

\* for entity in <sorted groups>: results[earnings_data['entity_name']] = ...
RECURSIVE put_earnings(_, _, _, _, _)
put_earnings(acc, keys, rows, cat, cfg) ==
    IF keys = <<>> THEN acc
    ELSE put_earnings(
             put_entry(acc, _calculate_earnings(Head(keys),
                                                GroupTotal(rows, Head(keys)),
                                                cat, cfg)),
             Tail(keys), rows, cat, cfg)

\* if config: for config_entity in config.keys():
\*     if config_entity not in results: results[config_entity] = {zero entry}
RECURSIVE zero_fill(_, _)
zero_fill(acc, items) ==
    IF items = <<>> THEN acc
    ELSE zero_fill(IF DictHas(acc, Head(items).key) THEN acc
                   ELSE DictPut(acc, Head(items).key, ZeroEntry(Head(items).data)),
                   Tail(items))

\* the results of one aggregation scope: calculated entries, then zero fill
scope_results(rows, cat, cfg) ==
    IF Truthy(cfg)
    THEN zero_fill(put_earnings(<<>>, GroupKeys(rows), rows, cat, cfg), cfg.items)
    ELSE put_earnings(<<>>, GroupKeys(rows), rows, cat, cfg)

\* KeyError, or the TypeError of a comparison with None
KeyError == [raised |-> TRUE, has_weeks |-> FALSE, weeks |-> <<>>, overall |-> <<>>]

\* df_clean holds the entity column, the amount columns and, when it was
\* re-added, Week
FrameHas(cat, with_week, name) ==
    \/ name = cat.entity_column
    \/ \E k \in DOMAIN cat.amount_columns : cat.amount_columns[k] = name
    \/ (with_week /\ name = Col_Week)

\* results['weeks'][week] = week_results, week by week
week_results(rows, weeks, cat, cfg) ==
    list([n \in DOMAIN weeks |->
            [key |-> weeks[n],
             value |-> scope_results(RowsOfWeek(rows, weeks[n]), cat, cfg)]])

\* a variant that answers with the overall totals when a grouping column is
\* not in the frame
_process_with_grouping_lenient(rows, with_week, cat, cfg) ==
    IF \E g \in DOMAIN cat.grouping_columns :
           ~FrameHas(cat, with_week, cat.grouping_columns[g])
    THEN [raised |-> FALSE, has_weeks |-> FALSE, weeks |-> <<>>,
          overall |-> scope_results(rows, cat, cfg)]
    ELSE [raised |-> FALSE, has_weeks |-> TRUE,
          weeks |-> week_results(rows, WeekKeys(rows), cat, cfg),
          overall |-> scope_results(rows, cat, cfg)]

_process_with_grouping(rows, with_week, cat, cfg) ==
    \* df.groupby(group_cols): every grouping column must be in df_clean
    \* (of the frame's columns the model's categories group by Week only)
    IF \E g \in DOMAIN cat.grouping_columns :
           ~FrameHas(cat, with_week, cat.grouping_columns[g])
    THEN KeyError
    ELSE [raised |-> FALSE, has_weeks |-> TRUE,
          weeks |-> week_results(rows, WeekKeys(rows), cat, cfg),
          overall |-> scope_results(rows, cat, cfg)]

_process_without_grouping(rows, cat, cfg) ==
    [raised |-> FALSE, has_weeks |-> FALSE, weeks |-> <<>>,
     overall |-> scope_results(rows, cat, cfg)]

(***************************************************************************)
(* process_category                                                        *)
(***************************************************************************)
Text_broker == <<"b", "r", "o", "k", "e", "r">>

InSeq(s, x) == \E i \in DOMAIN s : s[i] = x

is_broker(col) == contains(lower(col), Text_broker)

\* the first column whose lower-cased name contains 'broker'; the empty
\* text stands for None
first_broker_column(columns) ==
    IF \E i \in DOMAIN columns : is_broker(columns[i])
    THEN columns[CHOOSE i \in DOMAIN columns :
                    /\ is_broker(columns[i])
                    /\ \A j \in 1..(i - 1) : ~is_broker(columns[j])]
    ELSE <<>>

\* if broker_col and category.grouping_columns
detects_weeks(cat, broker_col) ==
    broker_col # <<>> /\ cat.grouping_columns # <<>>

\* a variant that appends 'Week' whenever the table has a broker column
grouping_after_any_broker(cat, broker_col) ==
    IF broker_col # <<>> /\ ~InSeq(cat.grouping_columns, Col_Week)
    THEN [cat EXCEPT !.grouping_columns = Append(@, Col_Week)]
    ELSE cat

\* category.grouping_columns.append('Week'), on the caller's category
grouping_after(cat, broker_col) ==
    IF detects_weeks(cat, broker_col) /\ ~InSeq(cat.grouping_columns, Col_Week)
    THEN [cat EXCEPT !.grouping_columns = Append(@, Col_Week)]
    ELSE cat

\* grouping_columns and 'Week' in df.columns and 'Week' not in
\* df_clean.columns.  The model's tables carry no column named Week of
\* their own.
readds_week(cat, broker_col) ==
    detects_weeks(cat, broker_col) /\ ~FrameHas(cat, FALSE, Col_Week)

\* each cleaned row with the label found at its index
with_weeks(rows, labels) ==
    list([n \in DOMAIN rows |-> [rows[n] EXCEPT !.Week = labels[rows[n].idx]]])

\* a variant that detects the week markers on the rows left after cleaning
week_column_after_cleaning(table, rows, broker_col) ==
    list([n \in DOMAIN rows |->
            [rows[n] EXCEPT !.Week =
                week_scan(list([m \in DOMAIN rows |-> table.rows[rows[m].idx]]),
                          ColIndex(table.columns, broker_col), BeforeWeek1)[n]]])

\* df['Week'] = detect_week_markers(df, broker_col) on the whole table, then
\* df_clean['Week'] = df.loc[df_clean.index, 'Week'].values
week_column(table, rows, broker_col) ==
    with_weeks(rows, detect_week_markers(table, broker_col))

frame_rows(table, rows, cat, broker_col) ==
    IF readds_week(cat, broker_col) THEN week_column(table, rows, broker_col)
    ELSE rows

\* if category.grouping_columns: ... else: ...
grouped_results(rows, with_week, cat, cfg) ==
    IF cat.grouping_columns # <<>>
    THEN _process_with_grouping(rows, with_week, cat, cfg)
    ELSE _process_without_grouping(rows, cat, cfg)

process_rows(table, cat, rows, with_week, cfg) ==
    [df |-> table, category |-> cat,
     results |-> grouped_results(rows, with_week, cat, cfg), df_clean |-> rows]

process_cleaned(table, cat, cfg, broker_col, cleaned) ==
    IF cleaned.raised
    THEN [df |-> table, category |-> grouping_after(cat, broker_col),
          results |-> KeyError, df_clean |-> <<>>]
    ELSE process_rows(table, grouping_after(cat, broker_col),
                      frame_rows(table, cleaned.rows, cat, broker_col),
                      readds_week(cat, broker_col), cfg)

process_detected(table, cat, cfg, broker_col) ==
    process_cleaned(table, cat, cfg, broker_col,
                    clean_dataframe(table, cat.entity_column, cat.amount_columns))

process_stripped(table, cat, cfg) ==
    process_detected(table, cat, cfg, first_broker_column(table.columns))

\* The call's effects: the caller's table (its column names stripped in
\* place), the category (grouping_columns appended to in place), the
\* returned results and the local df_clean.
process_category(table, cat, cfg) ==
    process_stripped(strip_columns(table), cat, cfg)

(***************************************************************************)
(* process_excel_file                                                      *)
(***************************************************************************)
Text_dispatch == <<"d", "i", "s", "p", "a", "t", "c", "h">>

Text_amount == <<"a", "m", "o", "u", "n", "t">>

Text_total == <<"t", "o", "t", "a", "l">>

Text_revenue == <<"r", "e", "v", "e", "n", "u", "e">>

has_keyword(col, keywords) == \E w \in keywords : contains(lower(col), w)

\* the last column (the loop has no break) whose lower-cased name contains
\* one of the keywords; 0 when there is none
LastColumnWith(columns, keywords) ==
    IF \E i \in DOMAIN columns : has_keyword(columns[i], keywords)
    THEN CHOOSE i \in DOMAIN columns :
             /\ has_keyword(columns[i], keywords)
             /\ \A j \in (i + 1)..Len(columns) : ~has_keyword(columns[j], keywords)
    ELSE 0

legacy_keep(row, dispatch_col, amount_col) ==
    /\ ~isna(row[amount_col])
    /\ ~clean_amount(row[amount_col]).none
    /\ clean_amount(row[amount_col]).v > 0
    /\ keep_entity(entity_name(row, dispatch_col))

legacy_row(i, row, dispatch_col, amount_col, week) ==
    [idx |-> i, entity |-> entity_name(row, dispatch_col),
     amounts |-> <<clean_amount(row[amount_col]).v>>, Week |-> week]

RECURSIVE legacy_rows(_, _, _, _, _)
legacy_rows(rows, i, dispatch_col, amount_col, week_list) ==
    IF i > Len(rows) THEN <<>>
    ELSE (IF legacy_keep(rows[i], dispatch_col, amount_col)
          THEN <<legacy_row(i, rows[i], dispatch_col, amount_col, week_list[i])>>
          ELSE <<>>)
         \o legacy_rows(rows, i + 1, dispatch_col, amount_col, week_list)

\* the rows process_excel_file keeps, each with the Week label it was given
\* on the whole table
legacy_clean(rows, dispatch_col, amount_col, week_list) ==
    legacy_rows(rows, 1, dispatch_col, amount_col, week_list)

legacy_entry(acc, entry) == DictPut(acc, entry.entity_name, entry)

RECURSIVE legacy_put(_, _, _, _)
legacy_put(acc, keys, rows, percentages) ==
    IF keys = <<>> THEN acc
    ELSE legacy_put(
             legacy_entry(acc, legacy_earnings(Head(keys),
                                               GroupTotal(rows, Head(keys)),
                                               percentages)),
             Tail(keys), rows, percentages)

\* for result_dispatcher in results: lower() == config_dispatcher.lower()
legacy_found(acc, key) == \E i \in DOMAIN acc : lower(acc[i].key) = lower(key)

\* a configured dispatcher is added with a zero total unless a result key
\* equals it ignoring case
RECURSIVE legacy_zero_fill(_, _)
legacy_zero_fill(acc, percentages) ==
    IF percentages = <<>> THEN acc
    ELSE legacy_zero_fill(
             IF legacy_found(acc, Head(percentages).key) THEN acc
             ELSE DictPut(acc, Head(percentages).key,
                          EarningsData({"total_amount", "percentage", "earnings"},
                                       <<>>, 0, Head(percentages).value, 0, 0)),
             Tail(percentages))

legacy_scope(rows, percentages) ==
    legacy_zero_fill(legacy_put(<<>>, GroupKeys(rows), rows, percentages), percentages)

\* ValueError("Could not find ... column in Excel file")
ValueError == [raised |-> TRUE, has_weeks |-> FALSE, weeks |-> <<>>, overall |-> <<>>]

legacy_weeks(rows, weeks, percentages) ==
    list([n \in DOMAIN weeks |->
            [key |-> weeks[n],
             value |-> legacy_scope(RowsOfWeek(rows, weeks[n]), percentages)]])

legacy_results(rows, percentages) ==
    [results |-> [raised |-> FALSE, has_weeks |-> TRUE,
                  weeks |-> legacy_weeks(rows, WeekKeys(rows), percentages),
                  overall |-> legacy_scope(rows, percentages)],
     df_clean |-> rows]

legacy_columns(rows, dispatch_col, amount_col, broker_col, percentages) ==
    IF dispatch_col = 0 \/ amount_col = 0 \/ broker_col = 0
    THEN [results |-> ValueError, df_clean |-> <<>>]
    ELSE legacy_results(
             legacy_clean(rows, dispatch_col, amount_col,
                          week_scan(rows, broker_col, BeforeWeek1)),
             percentages)

legacy_stripped(table, percentages) ==
    legacy_columns(table.rows,
                   LastColumnWith(table.columns, {Text_dispatch}),
                   LastColumnWith(table.columns, {Text_amount, Text_total, Text_revenue}),
                   LastColumnWith(table.columns, {Text_broker}),
                   percentages)

process_excel_file(table, percentages) ==
    legacy_stripped(strip_columns(table), percentages)

(***************************************************************************)
(* Inputs of the processors: tables of at most MaxRows rows over the       *)
(* columns Broker (or Load), Dispatch, Amount and Fee.                     *)
(***************************************************************************)
MaxRows == 2

Col_Load == <<"L", "o", "a", "d">>

Col_Dispatch == <<"D", "i", "s", "p", "a", "t", "c", "h">>

Col_Amount == <<"A", "m", "o", "u", "n", "t">>

Col_Fee == <<"F", "e", "e">>

Col_Month == <<"M", "o", "n", "t", "h">>

\* rows as <<Broker, Dispatch, Amount, Fee>>
RowTemplates ==
    { <<NaN, Text(Name_Ali), Text(<<"$", "5", "0", "0">>), NaN>>,
      <<Text(<<"W", "e", "e", "k", " ", "2">>), NaN, NaN, NaN>>,
      <<NaN, Text(Name_Sara), Text(<<"$", "-", "1", "0">>), Text(<<"5">>)>>,
      <<NaN, Text(Name_ALI), Text(<<"1", "0", "0">>), Text(<<"-", "1">>)>>,
      <<Text(<<"w", "e", "e", "k", " ", "3">>), Text(Name_Ali), Number(40),
        Text(<<"5">>)>>,
      <<NaN, Text(<<" ">>), Text(<<"7", "0">>), Text(<<"a", "b", "c">>)>>,
      <<NaN, Text(<<"B", "o", "b", " ">>), Number(0), NaN>> }

\* headers as a spreadsheet may give them, with blanks around the name
Col_BrokerPadded == <<" ", "B", "r", "o", "k", "e", "r">>

Col_DispatchPadded == <<"D", "i", "s", "p", "a", "t", "c", "h", " ">>

Col_Rate == <<"R", "a", "t", "e">>

\* sheets with a Broker column, shorter ones without, and shorter ones with
\* padded headers and a Rate column in place of Fee
ProcTables ==
    {[columns |-> <<Col_Broker, Col_Dispatch, Col_Amount, Col_Fee>>, rows |-> r] :
        r \in BoundedSeq(RowTemplates, MaxRows)}
    \cup
    {[columns |-> <<Col_Load, Col_Dispatch, Col_Amount, Col_Fee>>, rows |-> r] :
        r \in BoundedSeq(RowTemplates, MaxRows - 1)}
    \cup
    {[columns |-> <<Col_BrokerPadded, Col_DispatchPadded, Col_Amount, Col_Rate>>,
      rows |-> r] : r \in BoundedSeq(RowTemplates, MaxRows - 1)}

Category(amounts, grouping, meth) ==
    [name |-> <<>>, entity_column |-> Col_Dispatch, amount_columns |-> amounts,
     grouping_columns |-> grouping, calculation_method |-> meth]

ProcCategories ==
    {Category(a, g, "percentage") :
        a \in {<<Col_Amount>>, <<Col_Amount, Col_Fee>>},
        g \in {<<>>, <<Col_Week>>, <<Col_Month>>}}
    \cup
    {Category(<<Col_Amount>>, <<Col_Week>>, meth) : meth \in {"flat_rate", "sum_only"}}

Pct(v) == [fields |-> {"type", "value"}, type |-> "percentage", value |-> v]

ProcConfigs ==
    { ConfigNone,
      ConfigDict(<<[key |-> Name_Ali, data |-> Pct(10 * Unit)]>>),
      ConfigDict(<<[key |-> Name_Ali, data |-> Pct(10 * Unit)],
                   [key |-> Name_ALI, data |-> Pct(125)]>>),
      ConfigDict(<<[key |-> Name_Sara, data |-> Pct(125)],
                   [key |-> Name_Bob, data |-> Pct(10 * Unit)]>>) }

InitProc ==
    /\ df \in ProcTables
    /\ category \in ProcCategories
    /\ config \in ProcConfigs
    /\ dispatcher_percentages = LegacyOf(config)
    /\ call = [op |-> "start"]
    /\ ret = <<>>
    /\ local = <<>>
    /\ NoBot

\* UniversalExcelProcessor.process_category(df, category, config)
ProcessCategory ==
    \E out \in {process_category(df, category, config)} :
        /\ call' = [op |-> "process_category", df |-> df, category |-> category]
        /\ df' = out.df
        /\ category' = out.category
        /\ ret' = out.results
        /\ local' = out.df_clean
        /\ UNCHANGED <<config, dispatcher_percentages>>
        /\ UNCHANGED bot_vars

\* process_excel_file(file_path, dispatcher_percentages) on the same sheet
ProcessExcelFile ==
    \E out \in {process_excel_file(df, dispatcher_percentages)} :
        /\ call' = [op |-> "process_excel_file", df |-> df, category |-> category]
        /\ ret' = out.results
        /\ local' = out.df_clean
        /\ UNCHANGED <<df, category, config, dispatcher_percentages>>
        /\ UNCHANGED bot_vars

NextProc == ProcessCategory \/ ProcessExcelFile

SpecProc == InitProc /\ [][NextProc]_vars

(***************************************************************************)
(* Reading a processor's call: the table it was given, the rows it kept    *)
(* and the scopes of its result.                                           *)
(***************************************************************************)
Processed == call.op \in {"process_category", "process_excel_file"}

\* the call returned a result with a per-period breakdown
Periodic == Processed /\ ~ret.raised /\ ret.has_weeks

ResultKeys(scope) == {scope[i].key : i \in DOMAIN scope}

TotalIn(scope, e) == IF DictHas(scope, e) THEN DictGet(scope, e).total_amount ELSE 0

RECURSIVE SumOfPeriods(_, _)
SumOfPeriods(weeks, e) ==
    IF weeks = <<>> THEN 0
    ELSE TotalIn(Head(weeks).value, e) + SumOfPeriods(Tail(weeks), e)

\* the name an entity is reported under: the first configuration key equal
\* to it ignoring case, else its own spelling
Resolved(entity, items) ==
    IF Matches(entity, items) = {} THEN entity
    ELSE items[FirstMatch(entity, items)].key

\* the cells of the broker column of the table the call was given, the
\* column being named with or without padding
BrokerCells ==
    [k \in DOMAIN call.df.rows |->
        call.df.rows[k][CHOOSE i \in DOMAIN call.df.columns :
                            is_broker(call.df.columns[i])]]

\* the scopes of a result: the overall one over all kept rows, and one per
\* period over the kept rows carrying its label
Scopes ==
    {[results |-> ret.overall, rows |-> local]}
    \cup {[results |-> ret.weeks[i].value,
           rows |-> RowsOfWeek(local, ret.weeks[i].key)] : i \in DOMAIN ret.weeks}

(***************************************************************************)
(* C1  After process_category with a period grouping, or                   *)
(* process_excel_file, every entity's total_amount in the overall result   *)
(* equals the sum of its total_amount over the per-period results.         *)
(***************************************************************************)
C1_SumInvariant ==
    Periodic =>
        \A e \in ResultKeys(ret.overall) :
            TotalIn(ret.overall, e) = SumOfPeriods(ret.weeks, e)

(***************************************************************************)
(* C3  Period labels are computed on the full table before any row is      *)
(* dropped: every kept row carries the label of the last marker at or      *)
(* above it in the unfiltered table (dropped rows included), and the       *)
(* periods of the result are exactly the labels of the kept rows, each     *)
(* kept row having its entity's entry in the period of its label.          *)
(***************************************************************************)
C3_LabelsBeforeDrop ==
    Periodic =>
        /\ \A n \in DOMAIN local :
              local[n].Week = ExpectedLabel(BrokerCells, local[n].idx)
        /\ {ret.weeks[i].key : i \in DOMAIN ret.weeks}
              = {ExpectedLabel(BrokerCells, local[n].idx) : n \in DOMAIN local}
        /\ \A n \in DOMAIN local :
              \E i \in DOMAIN ret.weeks :
                  /\ ret.weeks[i].key = ExpectedLabel(BrokerCells, local[n].idx)
                  /\ TotalIn(ret.weeks[i].value,
                             Resolved(local[n].entity, config.items)) > 0

\* a "Week 2" marker row without amount or entity was dropped, and the row
\* below it was aggregated under Week 2
C3_Witness ==
    /\ call.op = "process_category"
    /\ Periodic
    /\ Len(call.df.rows) = 2
    /\ IsMarker(BrokerCells[1])
    /\ isna(call.df.rows[1][3])
    /\ Len(local) = 1
    /\ local[1].idx = 2
    /\ ~IsMarker(BrokerCells[2])
    /\ local[1].Week = <<"W", "e", "e", "k", " ", "2">>
    /\ Len(ret.weeks) = 1
    /\ ret.weeks[1].key = <<"W", "e", "e", "k", " ", "2">>

(***************************************************************************)
(* The rows that count, read off the table the call was given: the primary *)
(* amount sanitizes to a number above zero and the trimmed entity name is  *)
(* neither empty nor the null string.                                      *)
(***************************************************************************)
PrimaryColumn ==
    IF call.op = "process_category" THEN call.category.amount_columns[1]
    ELSE Col_Amount

\* the cell of row i under the column of that name, padded or not
InputCell(i, name) ==
    call.df.rows[i][CHOOSE c \in DOMAIN call.df.columns :
                        strip(call.df.columns[c]) = name]

Sanitized(i) == clean_amount(InputCell(i, PrimaryColumn))

Trimmed(i) == strip(str(InputCell(i, Col_Dispatch)))

Counts(i) ==
    /\ ~Sanitized(i).none /\ Sanitized(i).v > 0
    /\ Trimmed(i) # <<>> /\ Trimmed(i) # <<"n", "a", "n">>

RECURSIVE SumPrimary(_)
SumPrimary(S) ==
    IF S = {} THEN 0
    ELSE LET i == CHOOSE j \in S : TRUE
         IN  Sanitized(i).v + SumPrimary(S \ {i})

\* the scopes of a result with the table rows that belong to each
TableScopes ==
    {[results |-> ret.overall, idxs |-> DOMAIN call.df.rows]}
    \cup {[results |-> ret.weeks[i].value,
           idxs |-> {k \in DOMAIN call.df.rows :
                        ExpectedLabel(BrokerCells, k) = ret.weeks[i].key}] :
             i \in DOMAIN ret.weeks}

Configured(e) == \E k \in DOMAIN config.items : config.items[k].key = e

(***************************************************************************)
(* C4  In every aggregation scope an entity's total_amount is the sum of   *)
(* the primary amounts of exactly the rows that count; every such row's    *)
(* entity has an entry, and the rows that do not count contribute to no    *)
(* total and create no entry.                                              *)
(***************************************************************************)
C4_SanitizedTotals ==
    (Processed /\ ~ret.raised) =>
        \A sc \in TableScopes :
            /\ \A e \in ResultKeys(sc.results) :
                  TotalIn(sc.results, e)
                      = SumPrimary({i \in sc.idxs :
                                       Counts(i) /\ Resolved(Trimmed(i), config.items) = e})
            /\ \A i \in sc.idxs :
                  Counts(i) => DictHas(sc.results, Resolved(Trimmed(i), config.items))
            /\ \A e \in ResultKeys(sc.results) :
                  \/ Configured(e)
                  \/ \E i \in sc.idxs :
                        Counts(i) /\ Resolved(Trimmed(i), config.items) = e

(***************************************************************************)
(* C5  With several amount columns the positive-amount filter is driven by *)
(* the first one only: a row is kept exactly when its first amount         *)
(* sanitizes to a number above zero (and its entity is named), whatever    *)
(* the other amount columns hold.                                          *)
(***************************************************************************)
C5_PrimaryDrivesFilter ==
    (/\ call.op = "process_category"
     /\ Len(call.category.amount_columns) > 1
     /\ ~ret.raised) =>
        \A i \in DOMAIN call.df.rows :
            Counts(i) <=> \E n \in DOMAIN local : local[n].idx = i

(***************************************************************************)
(* C10  In every period of the result and in the overall result, every     *)
(* configured entity without an aggregated row in that scope appears with  *)
(* total_amount = 0 and earnings = 0, and every configured entity with     *)
(* data appears with its data total.                                       *)
(***************************************************************************)
DataOf(rows, key) ==
    SelectSeq(rows, LAMBDA r : Resolved(r.entity, config.items) = key)

C10_Reconciliation ==
    (Processed /\ ~ret.raised /\ Truthy(config)) =>
        \A sc \in Scopes : \A k \in DOMAIN config.items :
            /\ DictHas(sc.results, config.items[k].key)
            /\ DataOf(sc.rows, config.items[k].key) = <<>> =>
                  /\ DictGet(sc.results, config.items[k].key).total_amount = 0
                  /\ DictGet(sc.results, config.items[k].key).earnings = 0
            /\ DataOf(sc.rows, config.items[k].key) # <<>> =>
                  DictGet(sc.results, config.items[k].key).total_amount
                      = SumAmount(DataOf(sc.rows, config.items[k].key))

(***************************************************************************)
(* C11  Running process_category twice in a row on the same table, the     *)
(* same category object and the same config gives identical results: what  *)
(* the first run left in the table and in the category's grouping_columns  *)
(* does not change the second run.                                         *)
(***************************************************************************)
C11_Idempotent ==
    [][(call.op = "process_category" /\ call'.op = "process_category")
          => (ret' = ret /\ local' = local)]_vars

\* a second run, on a table whose padded headers the first run has
\* stripped in place, returned a breakdown
C11_Witness ==
    /\ call.op = "process_category"
    /\ call.df.columns = <<Col_Broker, Col_Dispatch, Col_Amount, Col_Rate>>
    /\ call.category.grouping_columns = <<Col_Week>>
    /\ Periodic
    /\ Len(local) = 1

(***************************************************************************)
(* C12  process_category leaves the caller's table unchanged: column       *)
(* names, rows and cells (the derived Week column goes to a copy).         *)
(***************************************************************************)
C12_TableUnchanged ==
    call.op = "process_category" => df = call.df

(***************************************************************************)
(* Configuration entries and parse_config_from_text.                       *)
(*                                                                         *)
(* A stored value is a Python float: a number (in tenths), nan or a signed *)
(* infinity.  An entry of a category configuration is a dict with the keys *)
(* named in "fields", or a value that is not a dict.  A category           *)
(* configuration and the whole configuration are dicts kept as sequences   *)
(* of [key, value] in insertion order.                                     *)
(***************************************************************************)
FNum(v) == [k |-> "num", v |-> v]

FNaN == [k |-> "nan", v |-> 0]

FInf(sign) == [k |-> "inf", v |-> sign]

\* value < 0 on floats: false for nan
float_lt_0(x) == (x.k = "num" /\ x.v < 0) \/ (x.k = "inf" /\ x.v < 0)

\* value > 100 on floats: false for nan
float_gt_100(x) == (x.k = "num" /\ x.v > 100 * Unit) \/ (x.k = "inf" /\ x.v > 0)

\* the digits-and-dot part of float(s), after the sign
float_magnitude(body, sign) ==
    IF body # <<>> /\ Head(body) = "-" THEN [raised |-> TRUE, value |-> FNaN]
    ELSE IF float_of(body).raised THEN [raised |-> TRUE, value |-> FNaN]
    ELSE [raised |-> FALSE, value |-> FNum(sign * float_of(body).v)]

\* float(s) after the sign: nan, inf and infinity in any case, or a decimal
float_unsigned(body, sign) ==
    IF lower(body) = <<"n", "a", "n">>
    THEN [raised |-> FALSE, value |-> FNaN]
    ELSE IF lower(body) \in {<<"i", "n", "f">>,
                             <<"i", "n", "f", "i", "n", "i", "t", "y">>}
    THEN [raised |-> FALSE, value |-> FInf(sign)]
    ELSE float_magnitude(body, sign)

\* float(s) on a stripped text
float_stripped(t) ==
    IF t # <<>> /\ Head(t) = "-" THEN float_unsigned(Tail(t), -1)
    ELSE IF t # <<>> /\ Head(t) = "+" THEN float_unsigned(Tail(t), 1)
    ELSE float_unsigned(t, 1)

\* float(s) for a text: surrounding whitespace and a sign are accepted;
\* ValueError (raised) otherwise.  The texts of the model hold no exponent
\* and no underscore.
py_float(s) == float_stripped(strip(s))

\* the position of the first occurrence of a character, 0 when absent
find(s, c) ==
    IF \E i \in DOMAIN s : s[i] = c
    THEN CHOOSE i \in DOMAIN s : s[i] = c /\ \A j \in 1..(i - 1) : s[j] # c
    ELSE 0

\* s.split(sep): the pieces between the occurrences of a character
RECURSIVE split(_, _)
split(s, sep) ==
    IF find(s, sep) = 0 THEN <<s>>
    ELSE <<SubSeq(s, 1, find(s, sep) - 1)>>
             \o split(SubSeq(s, find(s, sep) + 1, Len(s)), sep)

\* s.replace(c, '')
remove(s, c) == SelectSeq(s, LAMBDA x : x # c)

\* value_str: the text after the first colon, stripped, without '%', '$'
\* and ',', stripped again
value_str(line) ==
    strip(remove(remove(remove(
        strip(SubSeq(line, find(line, ":") + 1, Len(line))), "%"), "$"), ","))

\* entity_name: parts[0].strip()
entity_name_of(line) == strip(SubSeq(line, 1, find(line, ":") - 1))

\* a variant that types every entry as a percentage
entry_type_percentage(cat) == "percentage"

\* the type an entry gets from the category's calculation method
entry_type(cat) ==
    IF cat.calculation_method = "percentage" THEN "percentage"
    ELSE IF cat.calculation_method = "flat_rate" THEN "flat_rate"
    ELSE "value"

\* {'type': ..., 'value': ...}
Entry(type, value) ==
    [is_dict |-> TRUE, fields |-> {"type", "value"}, type |-> type, value |-> value]

\* one pass of the loop body over a line
parse_line(cfg, line, cat) ==
    IF find(line, ":") = 0 THEN cfg
    ELSE IF py_float(value_str(line)).raised THEN cfg
    ELSE DictPut(cfg, entity_name_of(line),
                 Entry(entry_type(cat), py_float(value_str(line)).value))

RECURSIVE parse_lines(_, _, _)
parse_lines(cfg, lines, cat) ==
    IF lines = <<>> THEN cfg
    ELSE parse_lines(parse_line(cfg, Head(lines), cat), Tail(lines), cat)

parse_config_from_text(text, cat) ==
    parse_lines(<<>>, split(strip(text), "\n"), cat)

(***************************************************************************)
(* Inputs of the configuration parser.                                     *)
(***************************************************************************)
MaxLines == 2

Line_Ali10 == <<"A", "l", "i", ":", " ", "1", "0">>

Line_Ali7 == <<"A", "l", "i", ":", "7">>

Line_AliPct == <<" ", "A", "l", "i", " ", ":", " ", "1", "2", ".", "5", "%">>

Line_SaraMoney == <<"S", "a", "r", "a", ":", "$", "1", ",", "5", "0", "0">>

Line_SaraNegative == <<"S", "a", "r", "a", ":", " ", "-", "5">>

Line_SaraOver == <<"S", "a", "r", "a", ":", "1", "5", "0">>

Line_BobWord == <<"B", "o", "b", ":", " ", "a", "b", "c">>

Line_BobTwoColons == <<"B", "o", "b", ":", "1", ":", "5">>

Line_BobNaN == <<"B", "o", "b", ":", "n", "a", "n">>

Line_BobInf == <<"B", "o", "b", ":", "+", "I", "n", "f">>

Line_NoColon == <<"A", "l", "i", " ", "1", "0">>

Line_Blank == <<" ">>

ParseLineExamples ==
    { Line_Ali10, Line_Ali7, Line_AliPct, Line_SaraMoney, Line_SaraNegative,
      Line_SaraOver, Line_BobWord, Line_BobTwoColons, Line_BobNaN, Line_BobInf,
      Line_NoColon, Line_Blank }

ParseAlphabet == {"a", ":", "5", "%", " "}

\* '\n'.join(lines)
RECURSIVE join_lines(_)
join_lines(lines) ==
    IF lines = <<>> THEN <<>>
    ELSE IF Len(lines) = 1 THEN lines[1]
    ELSE lines[1] \o <<"\n">> \o join_lines(Tail(lines))

ParseTexts ==
    {join_lines(ls) : ls \in BoundedSeq(ParseLineExamples, MaxLines)}
        \cup BoundedSeq(ParseAlphabet, MaxLen)

InitParse ==
    /\ df = NoTable
    /\ \E meth \in Methods : category = [NoCategory EXCEPT !.calculation_method = meth]
    /\ config = ConfigNone
    /\ dispatcher_percentages = <<>>
    /\ \E t \in ParseTexts : call = [op |-> "start", text |-> t]
    /\ ret = <<>>
    /\ local = <<>>
    /\ NoBot

\* one call of ConfigManager.parse_config_from_text on the drawn text
ParseConfigFromText ==
    /\ call.op = "start"
    /\ call' = [call EXCEPT !.op = "parse_config_from_text"]
    /\ ret' = parse_config_from_text(call.text, category)
    /\ UNCHANGED <<df, category, config, dispatcher_percentages, local>>
    /\ UNCHANGED bot_vars

NextParse == ParseConfigFromText

SpecParse == InitParse /\ [][NextParse]_vars

\* the lines of the submitted text
LinesOf(text) == split(strip(text), "\n")

\* the text after the first colon of a line, without '%', '$' and ',',
\* trimmed
TrimmedValue(line) ==
    strip(SelectSeq(SubSeq(line, find(line, ":") + 1, Len(line)),
                    LAMBDA c : c \notin {"%", "$", ","}))

\* the line contains a colon and its value parses
Qualifies(line) == find(line, ":") > 0 /\ ~py_float(TrimmedValue(line)).raised

\* the trimmed text before the first colon
KeyOf(line) == strip(SubSeq(line, 1, find(line, ":") - 1))

\* the entry a qualifying line asks for
EntryOf(line, cat) ==
    Entry(IF cat.calculation_method \in {"percentage", "flat_rate"}
          THEN cat.calculation_method ELSE "value",
          py_float(TrimmedValue(line)).value)

\* C17 as stated: one entry per qualifying line
C17_OneEntryPerLine ==
    call.op = "parse_config_from_text" =>
        LET lines == LinesOf(call.text)
            Q     == {i \in DOMAIN lines : Qualifies(lines[i])}
        IN  /\ Len(ret) = Cardinality(Q)
            /\ \A i \in Q : /\ DictHas(ret, KeyOf(lines[i]))
                            /\ DictGet(ret, KeyOf(lines[i])) = EntryOf(lines[i], category)

(***************************************************************************)
(* C17  parse_config_from_text returns one entry per distinct key of the   *)
(* lines that contain a colon and whose text after the first colon, with   *)
(* '%', '$' and ',' removed and trimmed, parses as a float (nan and inf    *)
(* included): the key is the trimmed text before the first colon, the      *)
(* entry is that of the last such line with this key, its type follows the *)
(* category's calculation method; lines without a colon and lines with an  *)
(* unparsable value contribute nothing and stop nothing.                   *)
(***************************************************************************)
C17_ParsedEntries ==
    call.op = "parse_config_from_text" =>
        LET lines == LinesOf(call.text)
            Q     == {i \in DOMAIN lines : Qualifies(lines[i])}
            Last  == {i \in Q : \A j \in Q : KeyOf(lines[j]) = KeyOf(lines[i]) => j <= i}
        IN  /\ {ret[k].key : k \in DOMAIN ret} = {KeyOf(lines[i]) : i \in Q}
            /\ Len(ret) = Cardinality(Last)
            /\ \A i \in Last : DictGet(ret, KeyOf(lines[i])) = EntryOf(lines[i], category)

\* an unparsable line followed by a line with '$' and ',': one entry, 1500
C17_Witness ==
    /\ call.op = "parse_config_from_text"
    /\ call.text = join_lines(<<Line_BobWord, Line_SaraMoney>>)
    /\ category.calculation_method = "flat_rate"
    /\ ret = <<[key |-> Name_Sara, value |-> Entry("flat_rate", FNum(1500 * Unit))]>>

(***************************************************************************)
(* The analysis categories and their validate_config.                      *)
(***************************************************************************)
Name_DispatcherEarnings ==
    <<"D", "i", "s", "p", "a", "t", "c", "h", "e", "r", " ",
      "E", "a", "r", "n", "i", "n", "g", "s">>

Name_DriverPayments ==
    <<"D", "r", "i", "v", "e", "r", " ", "P", "a", "y", "m", "e", "n", "t", "s">>

Name_BrokerPerformance ==
    <<"B", "r", "o", "k", "e", "r", " ",
      "P", "e", "r", "f", "o", "r", "m", "a", "n", "c", "e">>

Id_dispatcher_earnings ==
    <<"d", "i", "s", "p", "a", "t", "c", "h", "e", "r", "_",
      "e", "a", "r", "n", "i", "n", "g", "s">>

Text_placeholder == <<"p", "l", "a", "c", "e", "h", "o", "l", "d", "e", "r">>

DispatcherAnalysis(entity_column, amount_columns) ==
    [cls |-> "DispatcherAnalysis", name |-> Name_DispatcherEarnings,
     entity_column |-> entity_column, amount_columns |-> amount_columns,
     grouping_columns |-> <<>>, calculation_method |-> "percentage",
     config_needed |-> TRUE]

DriverAnalysis(entity_column, amount_columns) ==
    [cls |-> "DriverAnalysis", name |-> Name_DriverPayments,
     entity_column |-> entity_column, amount_columns |-> amount_columns,
     grouping_columns |-> <<>>, calculation_method |-> "percentage",
     config_needed |-> TRUE]

BrokerAnalysis(entity_column, amount_columns) ==
    [cls |-> "BrokerAnalysis", name |-> Name_BrokerPerformance,
     entity_column |-> entity_column, amount_columns |-> amount_columns,
     grouping_columns |-> <<>>, calculation_method |-> "sum_only",
     config_needed |-> FALSE]

\* self.name.lower().replace(' ', '_')
get_category_id(cat) ==
    list([i \in DOMAIN cat.name |->
            IF cat.name[i] = " " THEN "_" ELSE LowerChar(cat.name[i])])

\* the checks both validators make before looking at the type
has_type_and_value(settings) ==
    settings.is_dict /\ {"type", "value"} \subseteq settings.fields

\* DispatcherAnalysis.validate_config on one entry
dispatcher_entry_ok(settings) ==
    /\ has_type_and_value(settings)
    /\ settings.type = "percentage"
    /\ ~(float_lt_0(settings.value) \/ float_gt_100(settings.value))

\* DriverAnalysis.validate_config on one entry
driver_entry_ok(settings) ==
    /\ has_type_and_value(settings)
    /\ settings.type \in {"percentage", "flat_rate"}
    /\ ~float_lt_0(settings.value)
    /\ ~(settings.type = "percentage" /\ float_gt_100(settings.value))

\* category.validate_config(config), by the class of the category
validate_config(cat, cfg) ==
    IF cat.cls = "DispatcherAnalysis"
    THEN cfg # <<>> /\ \A i \in DOMAIN cfg : dispatcher_entry_ok(cfg[i].value)
    ELSE IF cat.cls = "DriverAnalysis"
    THEN cfg # <<>> /\ \A i \in DOMAIN cfg : driver_entry_ok(cfg[i].value)
    ELSE TRUE

(***************************************************************************)
(* ConfigManager: the configuration in memory and its JSON file.           *)
(*                                                                         *)
(* A file is missing, or holds a JSON object (data: its items), a JSON     *)
(* value that is not an object, text that is not JSON, or bytes that are   *)
(* not text.  The manager is down, up (config: what load_config returned,  *)
(* a dict unless the file held another JSON value) or crashed.             *)
(***************************************************************************)
ObjectFile(data) == [exists |-> TRUE, kind |-> "object", data |-> data]

ArrayFile == [exists |-> TRUE, kind |-> "array", data |-> <<>>]

InvalidJsonFile == [exists |-> TRUE, kind |-> "invalid_json", data |-> <<>>]

InvalidUtf8File == [exists |-> TRUE, kind |-> "invalid_utf8", data |-> <<>>]

\* json.load(f) on an existing file: the value, or the exception raised
json_load(file) ==
    IF file.kind = "invalid_json"
    THEN [raised |-> TRUE, error |-> "JSONDecodeError", is_dict |-> TRUE, value |-> <<>>]
    ELSE IF file.kind = "invalid_utf8"
    THEN [raised |-> TRUE, error |-> "UnicodeDecodeError", is_dict |-> TRUE, value |-> <<>>]
    ELSE [raised |-> FALSE, error |-> "", is_dict |-> file.kind = "object",
          value |-> file.data]

\* ConfigManager.load_config: only JSONDecodeError is caught
load_config(file) ==
    IF ~file.exists
    THEN [raised |-> FALSE, error |-> "", is_dict |-> TRUE, value |-> <<>>]
    ELSE IF json_load(file).raised /\ json_load(file).error = "JSONDecodeError"
    THEN [raised |-> FALSE, error |-> "", is_dict |-> TRUE, value |-> <<>>]
    ELSE json_load(file)

\* DispatcherBot.load_config of the legacy bot: nothing is caught
legacy_load_config(file) ==
    IF ~file.exists
    THEN [raised |-> FALSE, error |-> "", is_dict |-> TRUE, value |-> <<>>]
    ELSE json_load(file)

\* del d[k]
DictDel(d, k) == SelectSeq(d, LAMBDA e : e.key # k)

\* the state of the manager and of its file after an operation, and what
\* the operation returned or that it raised
Outcome(mgr, store, raised, value) ==
    [manager |-> mgr, store |-> store, raised |-> raised, value |-> value]

\* set_category_config: self.config[category_id] = config; save_config()
set_category_config(mgr, store, cat, cfg) ==
    IF ~mgr.is_dict THEN Outcome(mgr, store, TRUE, FALSE)
    ELSE Outcome([mgr EXCEPT !.config = DictPut(mgr.config, get_category_id(cat), cfg)],
                 ObjectFile(DictPut(mgr.config, get_category_id(cat), cfg)),
                 FALSE, TRUE)

\* validate_and_save
validate_and_save(mgr, store, cat, cfg) ==
    IF ~validate_config(cat, cfg) THEN Outcome(mgr, store, FALSE, FALSE)
    ELSE set_category_config(mgr, store, cat, cfg)

\* get_category_config: self.config.get(category_id)
get_category_config(mgr, cat) ==
    IF ~mgr.is_dict THEN [raised |-> TRUE, is_none |-> TRUE, items |-> <<>>]
    ELSE IF DictHas(mgr.config, get_category_id(cat))
    THEN [raised |-> FALSE, is_none |-> FALSE,
          items |-> DictGet(mgr.config, get_category_id(cat))]
    ELSE [raised |-> FALSE, is_none |-> TRUE, items |-> <<>>]

\* has_category_config: category_id in self.config and bool(self.config[id])
has_category_config(mgr, cat) ==
    /\ mgr.is_dict
    /\ DictHas(mgr.config, get_category_id(cat))
    /\ DictGet(mgr.config, get_category_id(cat)) # <<>>

\* delete_category_config
delete_category_config(mgr, store, cat) ==
    IF mgr.is_dict /\ DictHas(mgr.config, get_category_id(cat))
    THEN Outcome([mgr EXCEPT !.config = DictDel(mgr.config, get_category_id(cat))],
                 ObjectFile(DictDel(mgr.config, get_category_id(cat))), FALSE, TRUE)
    ELSE Outcome(mgr, store, FALSE, TRUE)

\* get_all_categories: list(self.config.keys())
get_all_categories(mgr) ==
    IF ~mgr.is_dict THEN [raised |-> TRUE, value |-> <<>>]
    ELSE [raised |-> FALSE, value |-> list([i \in DOMAIN mgr.config |-> mgr.config[i].key])]

\* new_config of the migration: name -> {'type': 'percentage', 'value': number}
legacy_entries(legacy) ==
    list([i \in DOMAIN legacy |->
            [key |-> legacy[i].key, value |-> Entry("percentage", legacy[i].value)]])

\* migrate_legacy_config: nothing without the legacy file; every exception
\* (unreadable file, a value without items(), a configuration that is not
\* a dict) is caught and printed
migrate_legacy_config(mgr, store, legacy_file) ==
    IF ~legacy_file.exists \/ json_load(legacy_file).raised
       \/ ~json_load(legacy_file).is_dict \/ ~mgr.is_dict
    THEN Outcome(mgr, store, FALSE, FALSE)
    ELSE Outcome([mgr EXCEPT !.config = DictPut(mgr.config, Id_dispatcher_earnings,
                                                legacy_entries(legacy_file.data))],
                 ObjectFile(DictPut(mgr.config, Id_dispatcher_earnings,
                                    legacy_entries(legacy_file.data))),
                 FALSE, TRUE)

\* ConfigManager() followed by migrate_legacy_config(), as the constructor
\* of IntelligentDispatchBot runs them
start_manager(loaded, store, legacy_file) ==
    IF loaded.raised
    THEN Outcome([state |-> "crashed", is_dict |-> TRUE, config |-> <<>>],
                 store, TRUE, FALSE)
    ELSE migrate_legacy_config(
             [state |-> "up", is_dict |-> loaded.is_dict, config |-> loaded.value],
             store, legacy_file)

(***************************************************************************)
(* Rule-based category detection: analyze_excel_structure and              *)
(* _fallback_detection.  A detected category is a dict with the keys named *)
(* in "fields"; a confidence counts tenths.                                *)
(***************************************************************************)
Text_pay == <<"p", "a", "y">>

Text_earning == <<"e", "a", "r", "n", "i", "n", "g">>

Text_salary == <<"s", "a", "l", "a", "r", "y">>

Text_rate == <<"r", "a", "t", "e">>

Text_name == <<"n", "a", "m", "e">>

Text_driver == <<"d", "r", "i", "v", "e", "r">>

Text_customer == <<"c", "u", "s", "t", "o", "m", "e", "r">>

Text_vendor == <<"v", "e", "n", "d", "o", "r">>

Text_client == <<"c", "l", "i", "e", "n", "t">>

AmountKeywords ==
    {Text_amount, Text_total, Text_revenue, Text_pay, Text_earning, Text_salary,
     Text_rate}

EntityKeywords ==
    {Text_name, Text_dispatch, Text_driver, Text_broker, Text_customer, Text_vendor}

\* [col for col in columns if any(keyword in col.lower() for keyword in ...)]
columns_with(columns, keywords) ==
    SelectSeq(columns, LAMBDA col : has_keyword(col, keywords))

\* the part of the structure the detection reads
analyze_excel_structure(table) ==
    [column_names |-> table.columns,
     total_rows |-> Len(table.rows),
     potential_amount_columns |-> columns_with(table.columns, AmountKeywords),
     potential_entity_columns |-> columns_with(table.columns, EntityKeywords)]

\* a variant of the slice that takes the last amount-like column
last_amount_column(amount_columns) ==
    IF amount_columns = <<>> THEN <<>> ELSE <<amount_columns[Len(amount_columns)]>>

\* structure['potential_amount_columns'][:1]
first_amount_column(amount_columns) ==
    IF amount_columns = <<>> THEN <<>> ELSE <<amount_columns[1]>>

\* the dict a rule appends
CatData(name, entity_column, amount_columns) ==
    [fields |-> {"name", "entity_column", "amount_columns", "description",
                 "confidence"},
     name |-> name, entity_column |-> entity_column,
     amount_columns |-> amount_columns, confidence |-> 8]

\* one loop of the detection: a rule per entity column with a keyword
fallback_rules(entity_columns, keywords, name, amount_columns) ==
    list([i \in DOMAIN columns_with(entity_columns, keywords) |->
            CatData(name, columns_with(entity_columns, keywords)[i], amount_columns)])

_fallback_detection(structure) ==
    fallback_rules(structure.potential_entity_columns, {Text_dispatch},
                   Name_DispatcherEarnings,
                   first_amount_column(structure.potential_amount_columns))
    \o fallback_rules(structure.potential_entity_columns, {Text_driver},
                      Name_DriverPayments,
                      first_amount_column(structure.potential_amount_columns))
    \o fallback_rules(structure.potential_entity_columns,
                      {Text_broker, Text_customer, Text_client},
                      Name_BrokerPerformance,
                      first_amount_column(structure.potential_amount_columns))

(***************************************************************************)
(* Inputs of the detection.                                                *)
(***************************************************************************)
MaxColumns == 3

Col_DriverName == <<"D", "r", "i", "v", "e", "r", " ", "N", "a", "m", "e">>

Col_Customer == <<"C", "U", "S", "T", "O", "M", "E", "R">>

Col_Client == <<"C", "l", "i", "e", "n", "t">>

Col_ClientName == <<"C", "l", "i", "e", "n", "t", " ", "N", "a", "m", "e">>

Col_DispatchDriver ==
    <<"D", "i", "s", "p", "a", "t", "c", "h", "D", "r", "i", "v", "e", "r">>

Col_TotalPay == <<"T", "o", "t", "a", "l", " ", "P", "a", "y">>

DetectColumns ==
    { Col_Dispatch, Col_DriverName, Col_Broker, Col_Customer, Col_Client,
      Col_ClientName, Col_DispatchDriver, Col_Amount, Col_TotalPay, Col_Load }

\* the column names of a frame are distinct
DistinctColumns(columns) ==
    \A i \in DOMAIN columns : \A j \in DOMAIN columns : i # j => columns[i] # columns[j]

\* a row of the given width holding one name in every cell
FilledRow(columns, cell) == list([i \in DOMAIN columns |-> cell])

DetectTables ==
    {[columns |-> c, rows |-> r] :
        c \in {x \in BoundedSeq(DetectColumns, MaxColumns) : DistinctColumns(x)},
        r \in {<<>>}}
    \cup
    {[columns |-> c, rows |-> <<FilledRow(c, Text(Name_Ali))>>] :
        c \in {x \in BoundedSeq(DetectColumns, MaxColumns) : DistinctColumns(x)}}

InitDetect ==
    /\ df \in DetectTables
    /\ category = NoCategory
    /\ config = ConfigNone
    /\ dispatcher_percentages = <<>>
    /\ call = [op |-> "start"]
    /\ ret = <<>>
    /\ local = <<>>
    /\ NoBot

\* the rule-based detection on the structure of the frame
FallbackDetection ==
    /\ call.op = "start"
    /\ call' = [op |-> "_fallback_detection"]
    /\ ret' = _fallback_detection(analyze_excel_structure(df))
    /\ UNCHANGED <<df, category, config, dispatcher_percentages, local>>
    /\ UNCHANGED bot_vars

NextDetect == FallbackDetection

SpecDetect == InitDetect /\ [][NextDetect]_vars

\* the name contains the word, ignoring case
NameHas(col, word) == contains(lower(col), word)

EntityLike(col) ==
    \E w \in {Text_name, Text_dispatch, Text_driver, Text_broker, Text_customer,
              Text_vendor} : NameHas(col, w)

AmountLike(col) ==
    \E w \in {Text_amount, Text_total, Text_revenue, Text_pay, Text_earning,
              Text_salary, Text_rate} : NameHas(col, w)

\* the category names a column calls for
ProposedFor(col) ==
    (IF NameHas(col, Text_dispatch) THEN {Name_DispatcherEarnings} ELSE {})
    \cup (IF NameHas(col, Text_driver) THEN {Name_DriverPayments} ELSE {})
    \cup (IF \E w \in {Text_broker, Text_customer, Text_client} : NameHas(col, w)
          THEN {Name_BrokerPerformance} ELSE {})

\* the first amount-like column as a list, empty when there is none
FirstAmountLike(columns) ==
    IF \E i \in DOMAIN columns : AmountLike(columns[i])
    THEN <<columns[CHOOSE i \in DOMAIN columns :
                      /\ AmountLike(columns[i])
                      /\ \A j \in 1..(i - 1) : ~AmountLike(columns[j])]>>
    ELSE <<>>

(***************************************************************************)
(* C19  The rule-based detection depends on the column names only: it      *)
(* proposes, for every entity-like column, "Dispatcher Earnings" if the    *)
(* name contains "dispatch", "Driver Payments" if it contains "driver",    *)
(* "Broker Performance" if it contains broker, customer or client, and     *)
(* nothing else; every rule has confidence 0.8 and the first amount-like   *)
(* column (or the empty list) as amount_columns; a frame with the same     *)
(* columns and other rows gets the same rules.                             *)
(***************************************************************************)
C19_FallbackRules ==
    call.op = "_fallback_detection" =>
        LET Wanted == {<<c, n>> \in DetectColumns \X {Name_DispatcherEarnings,
                                  Name_DriverPayments, Name_BrokerPerformance} :
                          /\ InSeq(df.columns, c)
                          /\ EntityLike(c)
                          /\ n \in ProposedFor(c)}
        IN  /\ {<<ret[k].entity_column, ret[k].name>> : k \in DOMAIN ret} = Wanted
            /\ Len(ret) = Cardinality(Wanted)
            /\ \A k \in DOMAIN ret :
                  /\ ret[k].confidence = 8
                  /\ ret[k].amount_columns = FirstAmountLike(df.columns)
            /\ ret = _fallback_detection(
                         analyze_excel_structure([df EXCEPT !.rows = <<>>]))

\* a column calling for two categories, two amount-like columns, one row
C19_Witness ==
    /\ call.op = "_fallback_detection"
    /\ df.columns = <<Col_DispatchDriver, Col_TotalPay, Col_Amount>>
    /\ Len(df.rows) = 1
    /\ Len(ret) = 2
    /\ ret[1].name = Name_DispatcherEarnings
    /\ ret[2].name = Name_DriverPayments
    /\ ret[1].amount_columns = <<Col_TotalPay>>

(***************************************************************************)
(* The chat session of the bot (bot_enhanced).                             *)
(*                                                                         *)
(* A handler works on the session's user_data, the configuration manager,  *)
(* its file and the temporary files of the working directory; "raised"     *)
(* tells that an exception left the handler, "failed" that                 *)
(* run_category_analysis caught one and reported it, "reports" counts the  *)
(* report messages sent, "runs" lists the categories                       *)
(* run_category_analysis was invoked for, "breakdowns" counts the results  *)
(* that came with a 'weeks' breakdown.                                     *)
(***************************************************************************)
World(ud, mgr, store, temp, raised, failed) ==
    [user_data |-> ud, manager |-> mgr, store |-> store, temp |-> temp,
     raised |-> raised, failed |-> failed, reports |-> 0, runs |-> <<>>,
     finished |-> <<>>, breakdowns |-> 0]

\* an exception leaves the code at this point
Raise(w) == [w EXCEPT !.raised = TRUE]

\* 'temp_' + file_name
temp_path(file_name) == <<"t", "e", "m", "p", "_">> \o file_name

\* s.endswith(suffix)
endswith(s, suffix) ==
    Len(s) >= Len(suffix) /\ SubSeq(s, Len(s) - Len(suffix) + 1, Len(s)) = suffix

\* create_category_from_dict needs cat_data['entity_column'] and
\* cat_data['amount_columns']
can_create_category(cat_data) ==
    {"entity_column", "amount_columns"} \subseteq cat_data.fields

\* cat_data.get('name', '').lower()
category_name_lower(cat_data) ==
    IF "name" \in cat_data.fields THEN lower(cat_data.name) ELSE <<>>

create_category_from_dict(cat_data) ==
    IF contains(category_name_lower(cat_data), Text_dispatch)
    THEN DispatcherAnalysis(cat_data.entity_column, cat_data.amount_columns)
    ELSE IF contains(category_name_lower(cat_data), Text_driver)
    THEN DriverAnalysis(cat_data.entity_column, cat_data.amount_columns)
    ELSE IF contains(category_name_lower(cat_data), Text_broker)
    THEN BrokerAnalysis(cat_data.entity_column, cat_data.amount_columns)
    ELSE DispatcherAnalysis(cat_data.entity_column, cat_data.amount_columns)

\* the stored configuration of a category as process_category reads it;
\* the sessions of the model store finite numbers only
processor_config(got) ==
    IF got.is_none THEN ConfigNone
    ELSE ConfigDict(list([i \in DOMAIN got.items |->
            [key |-> got.items[i].key,
             data |-> [fields |-> got.items[i].value.fields,
                       type |-> got.items[i].value.type,
                       value |-> got.items[i].value.value.v]]]))

\* the frame holds the entity column and every amount column
has_columns(table, cat) ==
    /\ InSeq(table.columns, cat.entity_column)
    /\ \A k \in DOMAIN cat.amount_columns : InSeq(table.columns, cat.amount_columns[k])

\* the revenue of a scope: the sum of total_amount over its entries
RECURSIVE total_revenue(_)
total_revenue(scope) ==
    IF scope = <<>> THEN 0
    ELSE Head(scope).value.total_amount + total_revenue(Tail(scope))

\* generate_analysis_report: the number of messages, one per week with
\* revenue and one for a non-empty overall result
generate_analysis_report(results) ==
    Cardinality({i \in DOMAIN results.weeks :
                    total_revenue(results.weeks[i].value) # 0})
    + (IF results.overall # <<>> THEN 1 ELSE 0)

\* process_category as run_category_analysis calls it: the column names are
\* stripped in place, then KeyError for a column the frame lacks
\* (df[cols_to_keep]) and IndexError for a category without amount column
\* (category.amount_columns[0]); raised tells that it raised
run_processor(table, cat, cfg) ==
    IF ~has_columns(strip_columns(table), cat) \/ cat.amount_columns = <<>>
    THEN [df |-> strip_columns(table), raised |-> TRUE, messages |-> 0,
          has_weeks |-> FALSE]
    ELSE [df |-> process_category(table, cat, cfg).df,
          raised |-> process_category(table, cat, cfg).results.raised,
          has_weeks |-> process_category(table, cat, cfg).results.has_weeks,
          messages |-> generate_analysis_report(
                           process_category(table, cat, cfg).results)]

\* os.remove(pending_file) if the path is set and the file exists
remove_pending(ud, temp) ==
    IF "pending_file" \in ud.keys THEN temp \ {ud.pending_file} ELSE temp

\* generate_analysis_summary reads cat['name'] of every selected category
summary_raises(selected) ==
    \E i \in DOMAIN selected : "name" \notin selected[i].fields

\* finish_analysis without os.remove(pending_file)
finish_analysis_keeping_file(w) ==
    IF summary_raises(w.user_data.selected_categories)
    THEN Raise([w EXCEPT !.finished = Append(@, w.user_data)])
    ELSE [w EXCEPT !.user_data = EmptyUserData,
                   !.finished = Append(@, w.user_data)]

\* finish_analysis: summary, removal of the temporary file, clear();
\* "finished" keeps the session every invocation found
finish_analysis(w) ==
    IF summary_raises(w.user_data.selected_categories)
    THEN Raise([w EXCEPT !.finished = Append(@, w.user_data)])
    ELSE [w EXCEPT !.temp = remove_pending(w.user_data, w.temp),
                   !.user_data = EmptyUserData,
                   !.finished = Append(@, w.user_data)]

\* Series.unique(): the first occurrence of every value, in order
RECURSIVE unique(_)
unique(cells) ==
    IF cells = <<>> THEN <<>>
    ELSE IF InSeq(SubSeq(cells, 1, Len(cells) - 1), cells[Len(cells)])
    THEN unique(SubSeq(cells, 1, Len(cells) - 1))
    ELSE Append(unique(SubSeq(cells, 1, Len(cells) - 1)), cells[Len(cells)])

\* df[col].dropna()
column_values(table, col) ==
    SelectSeq(list([i \in DOMAIN table.rows |->
                      table.rows[i][ColIndex(table.columns, col)]]),
              LAMBDA cell : ~isna(cell))

\* the stripped texts of the cells, without 'nan'
stripped_names(cells) ==
    SelectSeq(list([i \in DOMAIN cells |-> strip(str(cells[i]))]),
              LAMBDA e : e # <<"n", "a", "n">>)

\* the entities of the config request
entities_of(table, col) == stripped_names(unique(column_values(table, col)))

\* request_category_config: df[category.entity_column] raises KeyError for
\* a column the frame lacks; the suggestion is what the advisory service
\* returned (None without it)
request_category_config(w, cat, suggestion) ==
    IF ~InSeq(w.user_data.df.columns, cat.entity_column) THEN Raise(w)
    ELSE [w EXCEPT !.user_data =
            [w.user_data EXCEPT
                !.keys = @ \cup {"awaiting_config_category", "config_entities",
                                 "ai_suggestion"},
                !.awaiting_config_category = cat,
                !.config_entities = entities_of(w.user_data.df, cat.entity_column),
                !.ai_suggestion = suggestion]]

\* the except branch of run_category_analysis: the error is reported,
\* nothing is cleaned up
caught(w) == [w EXCEPT !.raised = FALSE, !.failed = @ \/ w.raised]

\* the session after process_category returned: the frame the processor
\* stripped in place, the report messages sent, the index moved on
analysed(w, out) ==
    [w EXCEPT !.user_data =
        [w.user_data EXCEPT !.df = out.df,
                            !.current_category_index = @ + 1],
              !.reports = @ + out.messages,
              !.breakdowns = @ + (IF out.has_weeks THEN 1 ELSE 0)]

\* the session after process_category raised
not_analysed(w, out) ==
    [w EXCEPT !.user_data = [w.user_data EXCEPT !.df = out.df],
              !.raised = TRUE]

RECURSIVE process_next_category(_, _)
RECURSIVE run_category_analysis(_, _, _)
RECURSIVE after_processor(_, _, _)

after_processor(w, out, suggestion) ==
    IF out.raised THEN not_analysed(w, out)
    ELSE process_next_category(analysed(w, out), suggestion)

\* run_category_analysis: everything runs inside try, the next categories
\* included
run_category_analysis(w, cat, suggestion) ==
    IF "df" \notin w.user_data.keys \/ "file_name" \notin w.user_data.keys
       \/ ~w.manager.is_dict
    THEN caught(Raise([w EXCEPT !.runs = Append(@, cat)]))
    ELSE caught(after_processor([w EXCEPT !.runs = Append(@, cat)],
                    run_processor(w.user_data.df, cat,
                                  processor_config(get_category_config(w.manager, cat))),
                    suggestion))

\* process_next_category
process_next_category(w, suggestion) ==
    IF w.user_data.current_category_index >= Len(w.user_data.selected_categories)
    THEN finish_analysis(w)
    ELSE IF ~can_create_category(
                w.user_data.selected_categories[w.user_data.current_category_index + 1])
    THEN Raise(w)
    ELSE IF /\ create_category_from_dict(
                   w.user_data.selected_categories[
                       w.user_data.current_category_index + 1]).config_needed
            /\ ~has_category_config(w.manager,
                   create_category_from_dict(
                       w.user_data.selected_categories[
                           w.user_data.current_category_index + 1]))
    THEN request_category_config(w,
             create_category_from_dict(
                 w.user_data.selected_categories[w.user_data.current_category_index + 1]),
             suggestion)
    ELSE run_category_analysis(w,
             create_category_from_dict(
                 w.user_data.selected_categories[w.user_data.current_category_index + 1]),
             suggestion)

\* the manager and its file after a ConfigManager operation
with_outcome(w, out) == [w EXCEPT !.manager = out.manager, !.store = out.store]

\* del context.user_data[key] for the keys of a finished conversation
without_keys(ud, keys) ==
    [ud EXCEPT !.keys = @ \ keys,
               !.setconfig_mode = IF "setconfig_mode" \in keys THEN "" ELSE @,
               !.setconfig_category =
                   IF "setconfig_category" \in keys THEN NoCategory ELSE @,
               !.setconfig_entities =
                   IF "setconfig_entities" \in keys THEN <<>> ELSE @,
               !.awaiting_config_category =
                   IF "awaiting_config_category" \in keys THEN NoCategory ELSE @,
               !.config_entities = IF "config_entities" \in keys THEN <<>> ELSE @,
               !.ai_suggestion = IF "ai_suggestion" \in keys THEN FALSE ELSE @]

\* the class the reply selects: '1', '2' or '3'
selected_class(text) ==
    IF text = <<"1">> THEN DispatcherAnalysis(Text_placeholder, <<Text_placeholder>>)
    ELSE IF text = <<"2">> THEN DriverAnalysis(Text_placeholder, <<Text_placeholder>>)
    ELSE BrokerAnalysis(Text_placeholder, <<Text_placeholder>>)

\* [line.strip() for line in text.split('\n') if line.strip()]
entity_lines(text) ==
    SelectSeq(list([i \in DOMAIN split(text, "\n") |-> strip(split(text, "\n")[i])]),
              LAMBDA line : line # <<>>)

\* the awaiting_values step once the text is parsed
setconfig_values(w, cfg, out) ==
    IF cfg = <<>> THEN w
    ELSE IF out.raised THEN Raise(w)
    ELSE IF out.value
    THEN [with_outcome(w, out) EXCEPT !.user_data =
             without_keys(w.user_data, {"setconfig_mode", "setconfig_category",
                                        "setconfig_entities", "setconfig_category_id"})]
    ELSE w

\* handle_setconfig_flow
handle_setconfig_flow(w, text) ==
    IF w.user_data.setconfig_mode = "awaiting_category_selection"
    THEN IF text \notin {<<"1">>, <<"2">>, <<"3">>} THEN w
         ELSE [w EXCEPT !.user_data =
                 [w.user_data EXCEPT
                     !.keys = @ \cup {"setconfig_category_id", "setconfig_category"},
                     !.setconfig_category = selected_class(text),
                     !.setconfig_mode = "awaiting_entity_list"]]
    ELSE IF w.user_data.setconfig_mode = "awaiting_entity_list"
    THEN IF entity_lines(text) = <<>> THEN w
         ELSE [w EXCEPT !.user_data =
                 [w.user_data EXCEPT
                     !.keys = @ \cup {"setconfig_entities"},
                     !.setconfig_entities = entity_lines(text),
                     !.setconfig_mode = "awaiting_values"]]
    ELSE IF w.user_data.setconfig_mode = "awaiting_values"
    THEN setconfig_values(w,
             parse_config_from_text(text, w.user_data.setconfig_category),
             validate_and_save(w.manager, w.store, w.user_data.setconfig_category,
                 parse_config_from_text(text, w.user_data.setconfig_category)))
    ELSE w

SuggestionReplies ==
    { <<"y", "e", "s">>, <<"y">>, <<"a", "c", "c", "e", "p", "t">>,
      <<"c", "u", "s", "t", "o", "m">>, <<"n", "o">>, <<"n">> }

\* the configuration step of an analysis once the text is parsed: saved,
\* the analysis of the waiting category goes on
analysis_config(w, cat, cfg, out, suggestion) ==
    IF cfg = <<>> THEN w
    ELSE IF out.raised THEN Raise(w)
    ELSE IF out.value
    THEN run_category_analysis(
             [with_outcome(w, out) EXCEPT !.user_data =
                 without_keys(w.user_data, {"awaiting_config_category",
                                            "config_entities", "ai_suggestion"})],
             cat, suggestion)
    ELSE w

\* handle_message on the text of a message
handle_message(w, message, suggestion) ==
    IF message = <<>> THEN w
    ELSE IF "setconfig_mode" \in w.user_data.keys
    THEN handle_setconfig_flow(w, strip(message))
    ELSE IF "awaiting_config_category" \in w.user_data.keys
    THEN IF w.user_data.ai_suggestion /\ lower(strip(message)) \in SuggestionReplies
         THEN [w EXCEPT !.user_data = without_keys(w.user_data, {"ai_suggestion"})]
         ELSE analysis_config(w, w.user_data.awaiting_config_category,
                  parse_config_from_text(strip(message),
                                         w.user_data.awaiting_config_category),
                  validate_and_save(w.manager, w.store,
                      w.user_data.awaiting_config_category,
                      parse_config_from_text(strip(message),
                                             w.user_data.awaiting_config_category)),
                  suggestion)
    ELSE w

\* setconfig_command
setconfig_command(w) ==
    [w EXCEPT !.user_data = [w.user_data EXCEPT
                                !.keys = @ \cup {"setconfig_mode"},
                                !.setconfig_mode = "awaiting_category_selection"]]

\* cancel_command
cancel_command(w) ==
    [w EXCEPT !.temp = remove_pending(w.user_data, w.temp),
              !.user_data = EmptyUserData]

\* the state a handler of the running bot starts from
Now == World(user_data, manager, files.analysis_config, files.temp, FALSE, FALSE)

\* a handler of the running bot ran on the given input
Handled(op, input, w) ==
    /\ call' = [op |-> op, input |-> input]
    /\ ret' = [raised |-> w.raised, failed |-> w.failed, reports |-> w.reports,
               runs |-> w.runs, finished |-> w.finished,
               breakdowns |-> w.breakdowns]
    /\ user_data' = w.user_data
    /\ manager' = w.manager
    /\ files' = [files EXCEPT !.analysis_config = w.store, !.temp = w.temp]
    /\ UNCHANGED <<df, category, config, dispatcher_percentages, local>>

(***************************************************************************)
(* The configuration store over restarts, /setconfig conversations and     *)
(* direct calls of the manager.                                            *)
(***************************************************************************)
\* an entry that is not a dict
Bare(value) == [is_dict |-> FALSE, fields |-> {}, type |-> "", value |-> value]

\* an entry without 'value'
TypeOnly(type) ==
    [is_dict |-> TRUE, fields |-> {"type"}, type |-> type, value |-> FNum(0)]

Config_Valid == <<[key |-> Name_Ali, value |-> Entry("percentage", FNum(10 * Unit))]>>

Config_OutOfRange ==
    <<[key |-> Name_Ali, value |-> Entry("percentage", FNum(10 * Unit))],
      [key |-> Name_Sara, value |-> Entry("percentage", FNum(150 * Unit))]>>

Config_NotMapping ==
    <<[key |-> Name_Ali, value |-> Entry("percentage", FNum(10 * Unit))],
      [key |-> Name_Bob, value |-> Bare(FNum(5 * Unit))]>>

Config_NoValue == <<[key |-> Name_Ali, value |-> TypeOnly("percentage")]>>

Config_FlatRate == <<[key |-> Name_Ali, value |-> Entry("flat_rate", FNum(300 * Unit))]>>

SubmittedConfigs ==
    {Config_Valid, Config_OutOfRange, Config_NotMapping, Config_NoValue,
     Config_FlatRate}

ConfigCategories ==
    { DispatcherAnalysis(Text_placeholder, <<Text_placeholder>>),
      DriverAnalysis(Text_placeholder, <<Text_placeholder>>),
      BrokerAnalysis(Text_placeholder, <<Text_placeholder>>) }

ConfigMessages ==
    {<<"1">>, <<"2">>, <<"3">>, Line_Ali10, Line_SaraNegative, Line_BobNaN}

\* the legacy bot's file: 10 % for Ali, 150 for Sara
Legacy_AliSara ==
    <<[key |-> Name_Ali, value |-> FNum(10 * Unit)],
      [key |-> Name_Sara, value |-> FNum(150 * Unit)]>>

StoreFiles ==
    {NoFile, InvalidJsonFile, InvalidUtf8File, ArrayFile, ObjectFile(<<>>)}

LegacyFiles == {NoFile, InvalidJsonFile, ObjectFile(Legacy_AliSara)}

InitConfig ==
    /\ df = NoTable
    /\ category = NoCategory
    /\ config = ConfigNone
    /\ dispatcher_percentages = <<>>
    /\ call = [op |-> "start", input |-> <<>>]
    /\ ret = [raised |-> FALSE, failed |-> FALSE, reports |-> 0, runs |-> <<>>,
             finished |-> <<>>, breakdowns |-> 0]
    /\ local = <<>>
    /\ \E store \in StoreFiles : \E legacy \in LegacyFiles :
          files = [analysis_config |-> store, dispatcher_config |-> legacy, temp |-> {}]
    /\ manager = [state |-> "down", is_dict |-> TRUE, config |-> <<>>]
    /\ user_data = EmptyUserData

\* the process starts (again): IntelligentDispatchBot() loads the store and
\* runs the migration; the sessions of the previous process are gone
StartBot ==
    \E out \in {start_manager(load_config(files.analysis_config),
                              files.analysis_config, files.dispatcher_config)} :
        /\ call' = [op |-> "start_bot", input |-> files.analysis_config]
        /\ ret' = [raised |-> out.raised, failed |-> FALSE]
        /\ manager' = out.manager
        /\ files' = [files EXCEPT !.analysis_config = out.store]
        /\ user_data' = EmptyUserData
        /\ UNCHANGED <<df, category, config, dispatcher_percentages, local>>

\* the legacy bot starts: DispatcherBot() loads dispatcher_config.json
StartLegacyBot ==
    \E out \in {legacy_load_config(files.dispatcher_config)} :
        /\ call' = [op |-> "start_legacy_bot", input |-> files.dispatcher_config]
        /\ ret' = [raised |-> out.raised, failed |-> FALSE]
        /\ dispatcher_percentages' =
              IF out.raised THEN dispatcher_percentages ELSE out.value
        /\ UNCHANGED <<df, category, config, local>>
        /\ UNCHANGED bot_vars

\* /setconfig
SetconfigCommand ==
    /\ manager.state = "up"
    /\ Handled("setconfig_command", <<>>, setconfig_command(Now))

\* a text message in a session without an upload
ConfigMessage ==
    /\ manager.state = "up"
    /\ \E text \in ConfigMessages :
          \E w \in {handle_message(Now, text, FALSE)} :
              Handled("handle_message", text, w)

\* /cancel
CancelCommand ==
    /\ manager.state = "up"
    /\ Handled("cancel_command", <<>>, cancel_command(Now))

\* ConfigManager.validate_and_save(category, config)
ValidateAndSave ==
    /\ manager.state = "up"
    /\ \E cat \in ConfigCategories : \E cfg \in SubmittedConfigs :
          \E out \in {validate_and_save(manager, files.analysis_config, cat, cfg)} :
              /\ call' = [op |-> "validate_and_save",
                          input |-> [category |-> cat, config |-> cfg]]
              /\ ret' = [raised |-> out.raised, failed |-> FALSE, value |-> out.value]
              /\ manager' = out.manager
              /\ files' = [files EXCEPT !.analysis_config = out.store]
              /\ UNCHANGED <<df, category, config, dispatcher_percentages, local,
                             user_data>>

\* ConfigManager.delete_category_config(category)
DeleteCategoryConfig ==
    /\ manager.state = "up"
    /\ \E cat \in ConfigCategories :
          \E out \in {delete_category_config(manager, files.analysis_config, cat)} :
              /\ call' = [op |-> "delete_category_config", input |-> cat]
              /\ ret' = [raised |-> out.raised, failed |-> FALSE]
              /\ manager' = out.manager
              /\ files' = [files EXCEPT !.analysis_config = out.store]
              /\ UNCHANGED <<df, category, config, dispatcher_percentages, local,
                             user_data>>

NextConfig ==
    \/ StartBot
    \/ StartLegacyBot
    \/ ValidateAndSave
    \/ DeleteCategoryConfig

SpecConfig == InitConfig /\ [][NextConfig]_vars

\* restarts and /setconfig conversations
NextSetconfig ==
    \/ StartBot
    \/ SetconfigCommand
    \/ ConfigMessage
    \/ CancelCommand

SpecSetconfig == InitConfig /\ [][NextSetconfig]_vars

\* the entries of the persisted store, whatever their category
StoredEntries ==
    IF files.analysis_config.kind # "object" THEN {}
    ELSE UNION {{files.analysis_config.data[c].value[i].value :
                    i \in DOMAIN files.analysis_config.data[c].value} :
                c \in DOMAIN files.analysis_config.data}

\* a percentage lies in [0,100], a flat rate or a value is not negative
InRange(entry) ==
    /\ entry.type = "percentage" =>
          entry.value.k = "num" /\ 0 <= entry.value.v /\ entry.value.v <= 100 * Unit
    /\ entry.type \in {"flat_rate", "value"} =>
          \/ entry.value.k = "num" /\ entry.value.v >= 0
          \/ entry.value.k = "inf" /\ entry.value.v > 0

(***************************************************************************)
(* C13  After any sequence of start-ups (with the legacy migration) and    *)
(* /setconfig conversations, every entry of the persisted store has a      *)
(* percentage in [0,100] when its type is "percentage" and a value >= 0    *)
(* when its type is "flat_rate" or "value".                                *)
(***************************************************************************)
C13_StoredValuesInRange ==
    \A entry \in StoredEntries : entry.is_dict => InRange(entry)

\* the types a category's validator is meant to accept
AllowedTypes(cat) ==
    IF cat.cls = "DispatcherAnalysis" THEN {"percentage"}
    ELSE IF cat.cls = "DriverAnalysis" THEN {"percentage", "flat_rate"}
    ELSE {"percentage", "flat_rate", "value"}

\* not a mapping, missing type or value, wrong type, or value out of range
InvalidEntry(cat, entry) ==
    \/ ~entry.is_dict
    \/ ~({"type", "value"} \subseteq entry.fields)
    \/ entry.type \notin AllowedTypes(cat)
    \/ ~InRange(entry)

(***************************************************************************)
(* C14  A submission with at least one invalid entry is rejected as a      *)
(* unit: validate_and_save returns False and neither the configuration in  *)
(* memory nor the persisted store changes.                                 *)
(***************************************************************************)
C14_RejectedAsUnit ==
    [][(/\ call'.op = "validate_and_save"
        /\ \E i \in DOMAIN call'.input.config :
              InvalidEntry(call'.input.category, call'.input.config[i].value))
          => (/\ ~ret'.raised
              /\ ~ret'.value
              /\ manager' = manager
              /\ files' = files)]_vars

\* the file a start-up found is missing or does not hold a JSON object
MissingOrCorrupt(file) == file.kind # "object"

(***************************************************************************)
(* C15  Loading the configuration never fails: with a missing or corrupt   *)
(* file the new bot's manager and the legacy bot both start with an empty  *)
(* configuration on which the operations work.                             *)
(***************************************************************************)
C15_LoadNeverFails ==
    /\ (call.op = "start_bot" /\ MissingOrCorrupt(call.input)) =>
          /\ ~ret.raised
          /\ manager.state = "up"
          /\ manager.is_dict
    /\ (call.op = "start_legacy_bot" /\ MissingOrCorrupt(call.input)) =>
          /\ ~ret.raised
          /\ dispatcher_percentages = <<>>

\* the start-up that found the store also found a legacy file it could read
LegacyReadable == files.dispatcher_config.kind = "object"

(***************************************************************************)
(* C16  The legacy migration is a one-time step: a start-up that reads the *)
(* legacy mapping stores it as name -> {type: "percentage", value: number} *)
(* under "dispatcher_earnings", and a validated configuration saved under  *)
(* that id after the migration is still the stored one after a restart.    *)
(***************************************************************************)
C16_MigrationOnce ==
    [][/\ (call'.op = "start_bot" /\ LegacyReadable /\ manager'.state = "up"
             /\ manager'.is_dict)
          => /\ files'.analysis_config.kind = "object"
             /\ DictHas(files'.analysis_config.data, Id_dispatcher_earnings)
             /\ DictGet(files'.analysis_config.data, Id_dispatcher_earnings)
                   = legacy_entries(files.dispatcher_config.data)
       /\ (/\ call.op = "validate_and_save"
           /\ ret.value
           /\ get_category_id(call.input.category) = Id_dispatcher_earnings
           /\ LegacyReadable
           /\ call'.op = "start_bot")
          => DictGet(files'.analysis_config.data, Id_dispatcher_earnings)
                = call.input.config]_vars

(***************************************************************************)
(* Uploads: handle_document and analyze_command.                           *)
(*                                                                         *)
(* An upload is a frame read_excel returns, a file it cannot read, or a    *)
(* transfer that fails before or while the file is written.  The advisory  *)
(* service is absent (no credential), fails (the call or the parsing of    *)
(* its answer raises), or answers with a JSON object whose 'categories',   *)
(* when present, is taken as it is.                                        *)
(***************************************************************************)
Upload(kind, table) == [kind |-> kind, table |-> table]

Advisory(kind, has_categories, categories) ==
    [kind |-> kind, has_categories |-> has_categories, categories |-> categories]

\* result.get('categories', [])
response_categories(ai) == IF ai.has_categories THEN ai.categories ELSE <<>>

\* the detection of handle_document: the rule-based detector without an
\* analyzer, detect_categories with one (its except branch falls back)
detect_categories(table, ai) ==
    IF ai.kind \in {"no_credential", "error"}
    THEN _fallback_detection(analyze_excel_structure(table))
    ELSE response_categories(ai)

\* generate_category_selection_menu reads cat['name'] and
\* cat['description'] of every detected category
menu_raises(detected) ==
    \E i \in DOMAIN detected :
        ~({"name", "description"} \subseteq detected[i].fields)

\* context.user_data after the four assignments of handle_document
pending_session(file_name, table, detected) ==
    [EmptyUserData EXCEPT
        !.keys = {"pending_file", "file_name", "detected_categories", "df"},
        !.pending_file = temp_path(file_name),
        !.file_name = file_name,
        !.detected_categories = detected,
        !.df = table]

\* handle_document once the file is read and the categories are detected
document_detected(w, file_name, table, detected) ==
    IF detected = <<>>
    THEN [w EXCEPT !.user_data = EmptyUserData,
                   !.temp = @ \ {temp_path(file_name)}]
    ELSE IF menu_raises(detected)
    THEN [w EXCEPT !.user_data = pending_session(file_name, table, detected),
                   !.temp = @ \ {temp_path(file_name)}]
    ELSE [w EXCEPT !.user_data = pending_session(file_name, table, detected),
                   !.temp = @ \cup {temp_path(file_name)}]

\* handle_document
handle_document(w, file_name, upload, ai) ==
    IF ~(endswith(file_name, <<".", "x", "l", "s", "x">>)
         \/ endswith(file_name, <<".", "x", "l", "s">>))
    THEN w
    ELSE IF upload.kind = "get_file_failed"
    \* the except branch reads file_path before it was assigned
    THEN [w EXCEPT !.user_data = EmptyUserData, !.raised = TRUE]
    ELSE IF upload.kind \in {"download_failed", "unreadable"}
    THEN [w EXCEPT !.user_data = EmptyUserData,
                   !.temp = @ \ {temp_path(file_name)}]
    ELSE document_detected(w, file_name, upload.table,
                           detect_categories(upload.table, ai))

\* int(arg) for an argument of /analyze: digits after an optional sign
py_int(arg) ==
    IF arg # <<>> /\ Head(arg) \in {"-", "+"}
    THEN [raised |-> Tail(arg) = <<>> \/ \E i \in DOMAIN Tail(arg) : ~IsDigit(Tail(arg)[i]),
          v |-> (IF Head(arg) = "-" THEN -1 ELSE 1)
                * (IF \A i \in DOMAIN Tail(arg) : IsDigit(Tail(arg)[i])
                   THEN DigitsValue(Tail(arg)) ELSE 0)]
    ELSE [raised |-> arg = <<>> \/ \E i \in DOMAIN arg : ~IsDigit(arg[i]),
          v |-> IF \A i \in DOMAIN arg : IsDigit(arg[i]) THEN DigitsValue(arg) ELSE 0]

\* selected_indices: every category for 'all', int(arg) - 1 otherwise
selected_indices(args, n) ==
    IF lower(args[1]) = <<"a", "l", "l">> THEN list([i \in 1..n |-> i - 1])
    ELSE list([k \in DOMAIN args |-> py_int(args[k]).v - 1])

\* analyze_command once the indices are computed
analyze_selected(w, indices, suggestion) ==
    IF \E k \in DOMAIN indices :
          indices[k] < 0 \/ indices[k] >= Len(w.user_data.detected_categories)
    THEN w
    ELSE process_next_category(
             [w EXCEPT !.user_data =
                 [w.user_data EXCEPT
                     !.keys = @ \cup {"selected_categories", "current_category_index"},
                     !.selected_categories =
                         list([k \in DOMAIN indices |->
                                 w.user_data.detected_categories[indices[k] + 1]]),
                     !.current_category_index = 0]],
             suggestion)

\* analyze_command
analyze_command(w, args, suggestion) ==
    IF "detected_categories" \notin w.user_data.keys THEN w
    ELSE IF args = <<>> THEN w
    ELSE IF lower(args[1]) # <<"a", "l", "l">>
            /\ \E k \in DOMAIN args : py_int(args[k]).raised
    THEN w
    ELSE analyze_selected(w,
             selected_indices(args, Len(w.user_data.detected_categories)),
             suggestion)

(***************************************************************************)
(* Inputs of the upload sessions.                                          *)
(***************************************************************************)
File_a_xlsx == <<"a", ".", "x", "l", "s", "x">>

File_b_xls == <<"b", ".", "x", "l", "s">>

File_c_csv == <<"c", ".", "c", "s", "v">>

FileNames == {File_a_xlsx, File_b_xls, File_c_csv}

\* a dispatcher and an amount: one rule, analysable
Table_DispatchAmount ==
    [columns |-> <<Col_Dispatch, Col_Amount>>,
     rows |-> <<<<Text(Name_Ali), Text(<<"$", "5", "0", "0">>)>>>>]

\* a broker and no amount-like column: one rule without amount column
Table_BrokerLoad ==
    [columns |-> <<Col_Broker, Col_Load>>,
     rows |-> <<<<Text(Name_Bob), Text(<<"5">>)>>>>]

\* no entity-like column: no rule
Table_Load == [columns |-> <<Col_Load>>, rows |-> <<<<Text(<<"5">>)>>>>]

Uploads ==
    { Upload("table", Table_DispatchAmount), Upload("table", Table_BrokerLoad),
      Upload("table", Table_Load), Upload("unreadable", NoTable),
      Upload("get_file_failed", NoTable), Upload("download_failed", NoTable) }

\* a record of the advisory service without entity_column and amount_columns
Rule_NoColumns ==
    [fields |-> {"name", "description", "confidence"},
     name |-> Name_DispatcherEarnings, entity_column |-> <<>>,
     amount_columns |-> <<>>, confidence |-> 9]

\* a record of the advisory service without name and description
Rule_NoName ==
    [fields |-> {"entity_column", "amount_columns"},
     name |-> <<>>, entity_column |-> Col_Dispatch,
     amount_columns |-> <<Col_Amount>>, confidence |-> 9]

Advisories ==
    { Advisory("no_credential", FALSE, <<>>),
      Advisory("error", FALSE, <<>>),
      Advisory("response", FALSE, <<>>),
      Advisory("response", TRUE, <<Rule_NoColumns>>),
      Advisory("response", TRUE, <<Rule_NoName>>),
      Advisory("response", TRUE,
               <<CatData(Name_DispatcherEarnings, Col_Dispatch, <<Col_Amount>>)>>) }

AnalyzeArgs == { <<>>, <<<<"A", "l", "l">>>>, <<<<"1">>>>, <<<<"2">>>>, <<<<"x">>>> }

BotMessages == {Line_Ali10, Line_SaraOver, <<"Y", "e", "s">>}

\* the configurations the store holds when the sessions begin
BotConfigs ==
    { <<>>, <<[key |-> Id_dispatcher_earnings, value |-> Config_Valid]>> }

InitBot ==
    /\ df = NoTable
    /\ category = NoCategory
    /\ config = ConfigNone
    /\ dispatcher_percentages = <<>>
    /\ call = [op |-> "start", input |-> <<>>]
    /\ ret = [raised |-> FALSE, failed |-> FALSE, reports |-> 0, runs |-> <<>>,
             finished |-> <<>>, breakdowns |-> 0]
    /\ local = <<>>
    /\ \E cfg \in BotConfigs :
          /\ files = [analysis_config |-> ObjectFile(cfg), dispatcher_config |-> NoFile,
                      temp |-> {}]
          /\ manager = [state |-> "up", is_dict |-> TRUE, config |-> cfg]
    /\ user_data = EmptyUserData

\* a document arrives
HandleDocument ==
    \E file_name \in FileNames : \E upload \in Uploads : \E ai \in Advisories :
        \E w \in {handle_document(Now, file_name, upload, ai)} :
            Handled("handle_document",
                    [file_name |-> file_name, upload |-> upload, ai |-> ai], w)

\* /analyze with arguments
AnalyzeCommand ==
    \E args \in AnalyzeArgs : \E suggestion \in BOOLEAN :
        \E w \in {analyze_command(Now, args, suggestion)} :
            Handled("analyze_command", args, w)

\* a text message in a session with uploads
BotMessage ==
    \E text \in BotMessages : \E suggestion \in BOOLEAN :
        \E w \in {handle_message(Now, text, suggestion)} :
            Handled("handle_message", text, w)

NextBot ==
    \/ HandleDocument
    \/ AnalyzeCommand
    \/ BotMessage
    \/ CancelCommand

SpecBot == InitBot /\ [][NextBot]_vars

(***************************************************************************)
(* Claims about the upload sessions.                                       *)
(***************************************************************************)
\* the advisory service failed, or answered without a usable categories
\* list or with records lacking entity_column / amount_columns
AdvisoryUnusable(ai) ==
    \/ ai.kind \in {"no_credential", "error"}
    \/ ~ai.has_categories
    \/ \E i \in DOMAIN ai.categories :
          ~({"entity_column", "amount_columns"} \subseteq ai.categories[i].fields)

\* the last handler took a readable Excel upload
ReadableUpload ==
    /\ call.op = "handle_document"
    /\ call.input.file_name # File_c_csv
    /\ call.input.upload.kind = "table"

\* the rules of the rule-based detector for the table
RulesFor(table) == _fallback_detection(analyze_excel_structure(table))

\* the session holds exactly these rules (none: no session was opened)
SessionHolds(rules) ==
    IF rules = <<>> THEN "detected_categories" \notin user_data.keys
    ELSE /\ "detected_categories" \in user_data.keys
         /\ user_data.detected_categories = rules

\* C18: whatever the advisory service does (no credential, an error, a
\* response without a usable categories list or with records lacking
\* entity_column / amount_columns), a readable upload ends with the rules
\* of the rule-based detector and nothing is raised.
C18_FallsBackToRules ==
    (ReadableUpload /\ AdvisoryUnusable(call.input.ai))
        => /\ ~ret.raised
           /\ SessionHolds(RulesFor(call.input.upload.table))

\* C20: the temporary file of an upload is gone once the processing of the
\* upload has ended: a temporary file on disk is the pending file of the
\* session in progress, and the last handler did not end in a failed
\* category analysis.
C20_TempFileRemoved ==
    \A f \in files.temp :
        /\ "pending_file" \in user_data.keys
        /\ user_data.pending_file = f
        /\ ~ret.failed

(***************************************************************************)
(* Sheets that lack a column: the processors on every selection of the     *)
(* columns Broker, Dispatch, Amount and Fee that drops one or two.         *)
(***************************************************************************)
\* the positions kept of <<Broker, Dispatch, Amount, Fee>>
ColumnSelections ==
    { <<1, 2, 3, 4>>, <<2, 3, 4>>, <<1, 3, 4>>, <<1, 2, 4>>, <<1, 2, 3>>, <<2, 3>> }

Project(s, idxs) == list([k \in DOMAIN idxs |-> s[idxs[k]]])

MissingRowTemplates ==
    { <<NaN, Text(Name_Ali), Text(<<"$", "5", "0", "0">>), NaN>>,
      <<Text(<<"W", "e", "e", "k", " ", "2">>), NaN, NaN, NaN>>,
      <<Text(<<"w", "e", "e", "k", " ", "3">>), Text(Name_Ali), Number(40),
        Text(<<"5">>)>> }

MissingTables ==
    {[columns |-> Project(<<Col_Broker, Col_Dispatch, Col_Amount, Col_Fee>>, idxs),
      rows |-> list([k \in DOMAIN r |-> Project(r[k], idxs)])] :
        idxs \in ColumnSelections, r \in BoundedSeq(MissingRowTemplates, MaxRows)}

MissingConfigs ==
    { ConfigNone, ConfigDict(<<[key |-> Name_Ali, data |-> Pct(10 * Unit)]>>) }

InitMissing ==
    /\ df \in MissingTables
    /\ category \in ProcCategories
    /\ config \in MissingConfigs
    /\ dispatcher_percentages = LegacyOf(config)
    /\ call = [op |-> "start"]
    /\ ret = <<>>
    /\ local = <<>>
    /\ NoBot

SpecMissing == InitMissing /\ [][NextProc]_vars

\* the column names of the table the call was given, trimmed
GivenColumns == strip_columns(call.df).columns

\* a column the call requires is not in the table: the entity column, an
\* amount column, or the marker column (process_excel_file always reads the
\* markers, process_category when the category groups its result)
MissingRequired ==
    IF call.op = "process_category"
    THEN \/ ~InSeq(GivenColumns, call.category.entity_column)
         \/ \E k \in DOMAIN call.category.amount_columns :
               ~InSeq(GivenColumns, call.category.amount_columns[k])
         \/ /\ call.category.grouping_columns # <<>>
            /\ \A i \in DOMAIN GivenColumns : ~is_broker(GivenColumns[i])
    ELSE \/ \A i \in DOMAIN GivenColumns : ~has_keyword(GivenColumns[i], {Text_dispatch})
         \/ \A i \in DOMAIN GivenColumns :
               ~has_keyword(GivenColumns[i], {Text_amount, Text_total, Text_revenue})
         \/ \A i \in DOMAIN GivenColumns : ~is_broker(GivenColumns[i])

Table_DispatchPadded ==
    [columns |-> <<Col_DispatchPadded, Col_Amount>>,
     rows |-> <<<<Text(Name_Ali), Text(<<"$", "5", "0", "0">>)>>>>]

\* a driver and a dispatcher column, both padded: two rules
Table_DriverDispatchPadded ==
    [columns |-> <<<<"D", "r", "i", "v", "e", "r", " ">>, Col_DispatchPadded, Col_Amount>>,
     rows |-> <<<<Text(Name_Bob), Text(Name_Ali), Text(<<"$", "5", "0", "0">>)>>>>]

\* an answer of the advisory service with two rules, the second on a
\* column the sheet does not have
Advisory_TwoRules ==
    Advisory("response", TRUE,
             <<CatData(Name_DispatcherEarnings, Col_Dispatch, <<Col_Amount>>),
               CatData(Name_BrokerPerformance, Col_Broker, <<Col_Amount>>)>>)

Name_EquipmentAnalysis ==
    <<"E", "q", "u", "i", "p", "m", "e", "n", "t", " ",
      "A", "n", "a", "l", "y", "s", "i", "s">>

Table_LoadDispatchAmount ==
    [columns |-> <<Col_Load, Col_Dispatch, Col_Amount>>,
     rows |-> <<<<Text(<<"5">>), Text(Name_Ali), Text(<<"$", "5", "0", "0">>)>>>>]

\* an answer with a rule under a name of the prompt that no class carries
Advisory_Equipment ==
    Advisory("response", TRUE,
             <<CatData(Name_DispatcherEarnings, Col_Dispatch, <<Col_Amount>>),
               CatData(Name_EquipmentAnalysis, Col_Load, <<Col_Amount>>)>>)

\* the sheets with the outcome of the advisory service for each
SheetInputs ==
    { [upload |-> Upload("table", Table_DispatchPadded),
       ai |-> Advisory("no_credential", FALSE, <<>>)],
      [upload |-> Upload("table", Table_DriverDispatchPadded),
       ai |-> Advisory("no_credential", FALSE, <<>>)],
      [upload |-> Upload("table", Table_DispatchAmount),
       ai |-> Advisory("no_credential", FALSE, <<>>)],
      [upload |-> Upload("table", Table_DispatchAmount), ai |-> Advisory_TwoRules],
      [upload |-> Upload("table", Table_LoadDispatchAmount), ai |-> Advisory_Equipment] }

\* a spreadsheet arrives
HandleSheet ==
    \E input \in SheetInputs :
        \E w \in {handle_document(Now, File_a_xlsx, input.upload, input.ai)} :
            Handled("handle_document",
                    [file_name |-> File_a_xlsx, upload |-> input.upload,
                     ai |-> input.ai], w)

NextSheet ==
    \/ HandleSheet
    \/ AnalyzeCommand
    \/ BotMessage
    \/ CancelCommand

SpecSheet == InitBot /\ [][NextSheet]_vars

\* the columns a proposed rule refers to
RuleColumns(rule) ==
    {rule.entity_column} \cup {rule.amount_columns[k] : k \in DOMAIN rule.amount_columns}

(***************************************************************************)
(* C22  Column names are trimmed when the table is loaded, so the entity   *)
(* and amount columns of every rule proposed for the uploaded table name   *)
(* columns of the session's table at every later step, also when the       *)
(* headers carry leading or trailing blanks (rules on columns the sheet    *)
(* has under no spelling are left aside).                                  *)
(***************************************************************************)
C22_RuleColumnsExist ==
    "detected_categories" \in user_data.keys =>
        \A i \in DOMAIN user_data.detected_categories :
            \A col \in RuleColumns(user_data.detected_categories[i]) :
                InSeq(strip_columns(user_data.df).columns, strip(col))
                    => InSeq(user_data.df.columns, col)

(***************************************************************************)
(* C23  Partial results are never surfaced: when the analysis of a         *)
(* selected category fails, no report message of the request has been      *)
(* delivered (here: by the handler that ran the failing analysis).         *)
(***************************************************************************)
C23_NoPartialReports ==
    (call.op \in {"analyze_command", "handle_message"} /\ ret.failed)
        => ret.reports = 0

\* the id of a proposed rule: its own name lower-cased, blanks replaced
RuleId(rule) == get_category_id([name |-> rule.name])

\* the rule the session is working on after the step
CurrentRule == user_data'.selected_categories[user_data'.current_category_index + 1]

\* the step asked for the configuration of a category
AsksConfiguration ==
    /\ "awaiting_config_category" \in user_data'.keys
    /\ "selected_categories" \in user_data'.keys
    /\ \/ "awaiting_config_category" \notin user_data.keys
       \/ user_data'.awaiting_config_category # user_data.awaiting_config_category

(***************************************************************************)
(* C24  The configuration of a proposed rule is stored and looked up under *)
(* the id obtained from the rule's own name, so rules with different names *)
(* never share a configuration: a step that asks for a configuration asks  *)
(* for it under the id of the rule in progress.                            *)
(***************************************************************************)
C24_ConfigUnderOwnId ==
    [][AsksConfiguration
          => get_category_id(user_data'.awaiting_config_category) = RuleId(CurrentRule)]_vars

(***************************************************************************)
(* The two processors side by side.                                        *)
(***************************************************************************)
\* what a result says per entity of a scope
EntryView(scope) ==
    {<<scope[i].key, scope[i].value.total_amount, scope[i].value.percentage,
       scope[i].value.earnings>> : i \in DOMAIN scope}

\* what a result says: whether the call raised, the periods with their
\* entries, and the overall entries
ResultView(results) ==
    [raised |-> results.raised,
     weeks |-> {<<results.weeks[i].key, EntryView(results.weeks[i].value)>> :
                   i \in DOMAIN results.weeks},
     overall |-> EntryView(results.overall)]

\* process_excel_file ran on a sheet with dispatch, amount and broker
\* columns while the category is the percentage category on Amount by Week
LegacyComparable ==
    /\ call.op = "process_excel_file"
    /\ \E i \in DOMAIN call.df.columns : is_broker(call.df.columns[i])
    /\ call.category = Category(<<Col_Amount>>, <<Col_Week>>, "percentage")

(***************************************************************************)
(* C25  UniversalExcelProcessor refines the original processor: on every   *)
(* sheet with dispatch, amount and broker columns and every percentage     *)
(* configuration, process_category with the percentage category on that    *)
(* amount column grouped by Week returns the periods, the entity keys and  *)
(* the total_amount, percentage and earnings per entity that               *)
(* process_excel_file returns on the equivalent name -> percentage mapping.*)
(***************************************************************************)
C25_RefinesLegacy ==
    LegacyComparable
        => ResultView(ret)
             = ResultView(process_category(call.df, call.category, config).results)

(***************************************************************************)
(* C26  No amount is lost in the result: in every scope (each period and   *)
(* overall) the sum of total_amount over the entries of the result equals  *)
(* the sum of the amounts of the rows that survived cleaning in that       *)
(* scope, also when several spellings of a name match one configuration    *)
(* key.                                                                    *)
(***************************************************************************)
C26_NoAmountLost ==
    (Processed /\ ~ret.raised) =>
        \A sc \in Scopes : total_revenue(sc.results) = SumAmount(sc.rows)

(***************************************************************************)
(* Earnings on accepted configurations: a category of one of the three     *)
(* classes, a configuration its validate_config accepts (kept in local as  *)
(* it was submitted), and one call of _calculate_earnings with the         *)
(* configuration as get_category_config hands it to the processor.         *)
(***************************************************************************)
AcceptedConfigs(cat) == {cfg \in SubmittedConfigs : validate_config(cat, cfg)}

InitAccepted ==
    /\ df = NoTable
    /\ category \in ConfigCategories
    /\ local \in AcceptedConfigs(category)
    /\ config = processor_config([is_none |-> FALSE, items |-> local])
    /\ dispatcher_percentages = <<>>
    /\ \E e \in EarnEntities : \E t \in EarnTotals :
          call = [op |-> "start", entity |-> e, total_amount |-> t]
    /\ ret = <<>>
    /\ NoBot

NextAccepted == CalculateEarnings

SpecAccepted == InitAccepted /\ [][NextAccepted]_vars

(***************************************************************************)
(* C27  For every category class and every configuration its              *)
(* validate_config accepts, the earnings _calculate_earnings computes with *)
(* the category's own method satisfy 0 <= earnings <= total_amount for a   *)
(* percentage-method category: an accepted entry is never applied with a   *)
(* meaning other than its declared type.                                   *)
(***************************************************************************)
C27_AcceptedEarningsBounded ==
    (call.op = "_calculate_earnings" /\ category.calculation_method = "percentage")
        => /\ 0 <= ret.earnings
           /\ ret.earnings <= AsEarnings(call.total_amount)

(***************************************************************************)
(* Configuration before analysis in the upload sessions.                   *)
(***************************************************************************)
\* the handlers of an upload session
SessionOps == {"handle_document", "analyze_command", "handle_message"}

\* the category the queue of the session stands at
QueuedCategory ==
    create_category_from_dict(
        user_data.selected_categories[user_data.current_category_index + 1])

\* the queue stands at a category that needs a configuration and has none
NeedsConfiguration ==
    /\ "selected_categories" \in user_data.keys
    /\ user_data.current_category_index < Len(user_data.selected_categories)
    /\ can_create_category(
           user_data.selected_categories[user_data.current_category_index + 1])
    /\ QueuedCategory.config_needed
    /\ ~has_category_config(manager, QueuedCategory)

\* every invocation of run_category_analysis in the last handler was for a
\* category with a stored configuration, or one that needs none
RunsConfigured ==
    call.op \in SessionOps
        => \A i \in DOMAIN ret.runs :
              ret.runs[i].config_needed
                  => has_category_config(manager, ret.runs[i])

\* after /analyze or a message, a queued category without configuration is
\* the one the session awaits the configuration of
AsksWhenMissing ==
    (call.op \in {"analyze_command", "handle_message"} /\ NeedsConfiguration)
        => /\ "awaiting_config_category" \in user_data.keys
           /\ user_data.awaiting_config_category = QueuedCategory

\* the configuration the text of the coming message denotes
MessageConfig ==
    parse_config_from_text(strip(call'.input), user_data.awaiting_config_category)

\* a message that does not parse or does not validate keeps the session
\* waiting and runs nothing
RejectedKeepsWaiting ==
    (/\ call'.op = "handle_message"
     /\ "awaiting_config_category" \in user_data.keys
     /\ "setconfig_mode" \notin user_data.keys
     /\ \/ MessageConfig = <<>>
        \/ ~validate_config(user_data.awaiting_config_category, MessageConfig))
        => /\ "awaiting_config_category" \in user_data'.keys
           /\ user_data'.awaiting_config_category
                  = user_data.awaiting_config_category
           /\ ret'.runs = <<>>

\* C28: in an upload session run_category_analysis is invoked for a category
\* that needs configuration only when a non-empty configuration is stored
\* under its id; without one the bot asks for it, and a text that fails to
\* parse or validate leaves the session waiting without running the analysis
C28_RunsOnlyConfigured ==
    /\ [](RunsConfigured /\ AsksWhenMissing)
    /\ [][RejectedKeepsWaiting]_vars

(***************************************************************************)
(* The queue of selected categories: one upload session from /analyze to   *)
(* finish_analysis.  A new spreadsheet arrives only between sessions, and  *)
(* the user answers every request for a configuration.                     *)
(***************************************************************************)
\* a spreadsheet arrives while no queue is pending
UploadSheet ==
    /\ "selected_categories" \notin user_data.keys
    /\ HandleSheet

NextQueue ==
    \/ UploadSheet
    \/ AnalyzeCommand
    \/ BotMessage

\* the session waits for a configuration
AwaitsConfiguration == "awaiting_config_category" \in user_data.keys

\* the step of handle_message on a text that parses and validates for the
\* category the session waits for
SupplyConfiguration ==
    /\ AwaitsConfiguration
    /\ call'.op = "handle_message"
    /\ MessageConfig # <<>>
    /\ validate_config(user_data.awaiting_config_category, MessageConfig)

\* Weak fairness of SupplyConfiguration: the step is enabled exactly while
\* the session waits (the text "Ali: 10" is accepted for every category
\* that asks), so a session that waits for ever is answered.
SpecQueue ==
    /\ InitBot
    /\ [][NextQueue]_vars
    /\ ([]<>~AwaitsConfiguration \/ []<><<SupplyConfiguration>>_vars)

\* the last handler neither raised nor reported a failed analysis
NoFailure == ~ret.raised /\ ~ret.failed

\* the session the last handler worked on: the one finish_analysis found,
\* or the one still open
Session == IF ret.finished # <<>> THEN ret.finished[1] ELSE user_data

\* the handlers that work on the queue
QueueOps == {"analyze_command", "handle_message"}

\* the categories analysed by the last handler are the selected ones that
\* end at current_category_index, in selection order, each once; /analyze
\* starts at 0; a session left waiting waits for the category at the index
AnalysedInOrder ==
    call.op \in QueueOps
        => /\ Len(ret.runs) <= Session.current_category_index
           /\ ret.runs # <<>>
                 => Session.current_category_index <= Len(Session.selected_categories)
           /\ \A i \in DOMAIN ret.runs :
                 ret.runs[i] = create_category_from_dict(
                     Session.selected_categories[
                         Session.current_category_index - Len(ret.runs) + i])
           /\ (call.op = "analyze_command" /\ "selected_categories" \in Session.keys)
                 => Session.current_category_index = Len(ret.runs)
           /\ (ret.finished = <<>> /\ AwaitsConfiguration)
                 => /\ user_data.current_category_index
                          < Len(user_data.selected_categories)
                    /\ user_data.awaiting_config_category = QueuedCategory

\* finish_analysis ran at most once in the last handler, after the whole
\* queue, removed the temporary file and cleared the session
FinishedOnce ==
    (call.op \in QueueOps /\ ret.finished # <<>>)
        => /\ Len(ret.finished) = 1
           /\ Session.current_category_index = Len(Session.selected_categories)
           /\ user_data = EmptyUserData
           /\ "pending_file" \in Session.keys
                 => Session.pending_file \notin files.temp

\* /analyze selected categories
QueueSelected ==
    call.op = "analyze_command" /\ "selected_categories" \in Session.keys

\* finish_analysis ran
QueueFinished == call.op \in QueueOps /\ ret.finished # <<>>

\* C29: after /analyze selects k categories, if every needed configuration
\* is eventually supplied and no analysis fails, each selected category is
\* analysed exactly once in selection order (current_category_index goes
\* 0..k by steps of one), then finish_analysis runs exactly once, removes
\* the temporary file and clears the session; finish_analysis never runs
\* before all k analyses have completed
C29_QueueRunsToEnd ==
    []NoFailure
        => /\ [](AnalysedInOrder /\ FinishedOnce)
           /\ QueueSelected ~> QueueFinished

\* a message with the configuration ran both categories of a queue of two
\* and finished the session, the temporary file removed
C29_Witness ==
    /\ call.op = "handle_message"
    /\ NoFailure
    /\ Len(ret.finished) = 1
    /\ Len(ret.finished[1].selected_categories) = 2
    /\ Len(ret.runs) = 2
    /\ ret.finished[1].pending_file \notin files.temp
    /\ user_data = EmptyUserData

(***************************************************************************)
(* Sheets with week markers in the Broker column, analysed through the     *)
(* bot.                                                                    *)
(***************************************************************************)
\* one week of one load
Table_WeekSheet ==
    [columns |-> <<Col_Broker, Col_Dispatch, Col_Amount>>,
     rows |-> << <<Text(<<"W", "e", "e", "k", " ", "2">>), NaN, NaN>>,
                 <<Text(<<"A", "c", "m", "e">>), Text(Name_Ali),
                   Text(<<"$", "5", "0", "0">>)>> >>]

\* two weeks
Table_TwoWeekSheet ==
    [columns |-> <<Col_Broker, Col_Dispatch, Col_Amount>>,
     rows |-> << <<Text(<<"W", "e", "e", "k", " ", "2">>), NaN, NaN>>,
                 <<Text(<<"A", "c", "m", "e">>), Text(Name_Ali),
                   Text(<<"$", "5", "0", "0">>)>>,
                 <<Text(<<"w", "e", "e", "k", " ", "3">>), Text(Name_Ali),
                   Number(40)>> >>]

\* the rule of the advisory service for these sheets
Advisory_Dispatcher ==
    Advisory("response", TRUE,
             <<CatData(Name_DispatcherEarnings, Col_Dispatch, <<Col_Amount>>)>>)

PeriodInputs ==
    { [upload |-> Upload("table", t), ai |-> ai] :
        t \in {Table_WeekSheet, Table_TwoWeekSheet, Table_DispatchAmount},
        ai \in {Advisory("no_credential", FALSE, <<>>), Advisory_Dispatcher} }

\* a spreadsheet with weeks arrives
HandlePeriodSheet ==
    \E input \in PeriodInputs :
        \E w \in {handle_document(Now, File_a_xlsx, input.upload, input.ai)} :
            Handled("handle_document",
                    [file_name |-> File_a_xlsx, upload |-> input.upload,
                     ai |-> input.ai], w)

NextPeriods ==
    \/ HandlePeriodSheet
    \/ AnalyzeCommand
    \/ BotMessage
    \/ CancelCommand

SpecPeriods == InitBot /\ [][NextPeriods]_vars

\* a column whose name contains "broker" holds a week marker
HoldsWeekMarkers(table) ==
    \E i \in DOMAIN table.columns :
        /\ is_broker(table.columns[i])
        /\ \E r \in DOMAIN table.rows : IsMarker(table.rows[r][i])

\* C30: when the uploaded table has a column whose name contains "broker"
\* and that column holds week markers, every analysis run through the bot
\* returns a per-period breakdown ('weeks') besides the overall totals
C30_PeriodsThroughBot ==
    (/\ call.op \in QueueOps
     /\ ret.runs # <<>>
     /\ NoFailure
     /\ HoldsWeekMarkers(Session.df))
        => ret.breakdowns = Len(ret.runs)
====
